---- MODULE Spec2Model ----
(***************************************************************************)
(* A model of the Doddle decision engine (src/doddle): the scoring kernel, *)
(* the histogram builder and its score matrix, the guess orders, the       *)
(* depth-1 and depth-2 solvers, the Game objects and the Engine loops, the *)
(* decision tree and its builder, and the benchmark with its file format.  *)
(*                                                                         *)
(* A Word is modelled by its integer vector (Word.to_vector: one number    *)
(* ord(c) - ord("A") per letter), so that Word comparison is the           *)
(* lexicographic order of the vectors.  A ternary score string is the      *)
(* sequence of its digits.                                                 *)
(***************************************************************************)
EXTENDS Integers, Sequences, FiniteSets, TLC

VARIABLES
    sc_soln,        \* Scorer.score_word: the solution argument
    sc_guess,       \* Scorer.score_word: the guess argument
    sc_result,      \* the value score_word returned (NoScore before the call)
    hb_solns,       \* get_solns_by_score: the potential_solns argument
    hb_guess,       \* get_solns_by_score: the guess argument
    hb_result,      \* the dict get_solns_by_score returned (None before the call)
    og_a,           \* guess comparison: the left operand
    og_b,           \* guess comparison: the right operand
    og_res,         \* the results of a < b, b < a and a > b (None before)
    score_matrix,   \* HistogramBuilder.score_matrix: storage and its flags
    st_solns,       \* stream: the potential_solns argument (None: no stream)
    st_scores,      \* stream: scores, the columns of the candidates
    st_i,           \* stream: the words of all_words handled so far
    st_histogram,   \* stream: the pre-allocated histogram vector
    st_out,         \* stream: what the guess factory was handed, in order
    sv_solns,       \* get_best_guess: the potential_solns argument (None before)
    sv_best,        \* get_best_guess: the guess returned (None before)
    game,           \* the Game object (None before it is constructed)
    en_pc,          \* Engine.run: ready, running, returned, failed, KeyError
    en_i,           \* Engine.run: the loop variable i
    en_guess,       \* Engine.run: the local guess
    en_available,   \* Engine.run: the local available_answers
    simul_game,     \* the SimultaneousGame object (None before it is made)
    sn_pc,          \* SimulEngine.run: ready, running, returned, failed or
                    \* the name of the exception that escaped
    sn_i,           \* SimulEngine.run: the loop variable i
    sn_guess,       \* SimulEngine.run: the local guess
    sn_best,        \* what solver.get_best_guess last gave (None before)
    tr_solns,       \* TreeBuilder.build: the potential_solns argument
    tr_opening,     \* TreeBuilder.build: the opening_word argument
    tr_limit,       \* TreeBuilder.permutation_limit
    tr_root,        \* the GuessNode build returned (None before the call)
    nd_root,        \* a GuessNode that add is called under
    bm_origin,      \* who made the Benchmark: none, made (by hand, as the
                    \* tests do) or run (Benchmarker.run_benchmark)
    bm_benchmark,   \* a Benchmark (None before it is made), or the
                    \* exception that run_benchmark raised
    bm_valid,       \* how validate() ended (none before the call)
    bm_file,        \* the file to_csv wrote (None before)
    bm_read,        \* what read_csv gave (None before)
    dt_calls,       \* the calls of get_best_guess so far: the candidates
                    \* of each and the guess it returned
    dp_common,      \* depth comparison: the common words of the dictionary
    dp_guesses,     \* depth comparison: the opening guesses
    dp_shallow,     \* the total guesses of the depth-1 solver (None before
                    \* the benchmark), or the exception raised
    dp_deep,        \* the same of the depth-2 solver
    pm_belonged,    \* the columns of the subsets precompute was called with
    pm_last,        \* the argument of the last call of precompute
    shm_objects,    \* the MemoryMappedStorage objects made so far, the
                    \* first the one that created the region
    shm_unlinks,    \* the calls of shared_memory.unlink() so far: the
                    \* object and the process of each
    sr_series,      \* a WordSeries got from the root series by indexing
    dg_call,     \* DeepMinimaxSolver.get_best_guess: its candidates and its guess
    tc_pc,       \* TreeBuilder.build: "ready", "running" or "done"
    tc_limit,    \* its permutation_limit
    tc_stack     \* the calls of find_best_tree that have not returned

scorerVars == <<sc_soln, sc_guess, sc_result>>
partitionVars == <<hb_solns, hb_guess, hb_result>>
orderVars == <<og_a, og_b, og_res>>
matrixVars == <<score_matrix>>
streamVars == <<st_solns, st_scores, st_i, st_histogram, st_out>>
solverVars == <<sv_solns, sv_best>>
gameVars == <<game>>
engineVars == <<en_pc, en_i, en_guess, en_available>>
simulGameVars == <<simul_game>>
simulEngineVars == <<sn_pc, sn_i, sn_guess, sn_best>>
treeVars == <<tr_solns, tr_opening, tr_limit, tr_root>>
nodeVars == <<nd_root>>
benchVars == <<bm_origin, bm_benchmark, bm_valid, bm_file, bm_read>>
callVars == <<dt_calls>>
depthVars == <<dp_common, dp_guesses, dp_shallow, dp_deep>>
precomputeVars == <<pm_belonged, pm_last>>
shmVars == <<shm_objects, shm_unlinks>>
seriesVars == <<sr_series>>
deepVars == <<dg_call>>
treeCallVars == <<tc_pc, tc_limit, tc_stack>>
lateVars == <<precomputeVars, shmVars, seriesVars, deepVars, treeCallVars>>
offlineVars == <<treeVars, nodeVars, benchVars, callVars, depthVars, lateVars>>

vars == <<sc_soln, sc_guess, sc_result, hb_solns, hb_guess, hb_result,
          og_a, og_b, og_res, score_matrix,
          st_solns, st_scores, st_i, st_histogram, st_out,
          sv_solns, sv_best, game, en_pc, en_i, en_guess, en_available,
          simul_game, sn_pc, sn_i, sn_guess, sn_best,
          tr_solns, tr_opening, tr_limit, tr_root, nd_root,
          bm_origin, bm_benchmark, bm_valid, bm_file, bm_read,
          dt_calls, dp_common, dp_guesses, dp_shallow, dp_deep,
          pm_belonged, pm_last, shm_objects, shm_unlinks,
          sr_series,
          dg_call,
          tc_pc, tc_limit, tc_stack>>

\* Python's None, at each type that a variable holds
NoWord == <<>>
NoScore == 0 - 1
NoSeries == [words |-> <<>>, index |-> <<>>]
NoDict == <<>>
NoGuess == [word |-> NoWord]
NoGame == [soln |-> NoWord]
NoBenchmark == [guesses |-> <<>>, histogram |-> <<>>, scoreboards |-> <<>>]
NoFile == <<>>
NoTotal == [total |-> 0 - 1]
NoCall == [never |-> TRUE]
NoResult == [lt_ab |-> FALSE, lt_ba |-> FALSE, gt_ab |-> FALSE, done |-> FALSE]

\* A component that a specification does not exercise stays idle.
IdleScorer == sc_soln = NoWord /\ sc_guess = NoWord /\ sc_result = NoScore
IdlePartition == hb_solns = NoSeries /\ hb_guess = NoWord /\ hb_result = NoDict
IdleOrder == og_a = NoGuess /\ og_b = NoGuess /\ og_res = NoResult
IdleMatrix == score_matrix = NoDict
IdleStream ==
    /\ st_solns = NoSeries /\ st_scores = <<>> /\ st_i = 0
    /\ st_histogram = <<>> /\ st_out = <<>>
IdleSolver == sv_solns = NoSeries /\ sv_best = NoGuess
IdleGame == game = NoGame
IdleSimul ==
    /\ simul_game = NoGame
    /\ sn_pc = "ready" /\ sn_i = 0 /\ sn_guess = NoWord /\ sn_best = NoGuess
IdleEngine ==
    /\ en_pc = "ready" /\ en_i = 0 /\ en_guess = NoWord
    /\ en_available = NoSeries
IdleTree ==
    /\ tr_solns = NoSeries /\ tr_opening = NoWord /\ tr_limit = 0
    /\ tr_root = NoGuess
IdleNodes == nd_root = NoGuess
IdleBench ==
    /\ bm_origin = "none" /\ bm_benchmark = NoBenchmark /\ bm_valid = "none"
    /\ bm_file = NoFile /\ bm_read = NoBenchmark
IdleCalls == dt_calls = <<>>
IdleDepth ==
    /\ dp_common = NoSeries /\ dp_guesses = <<>>
    /\ dp_shallow = NoTotal /\ dp_deep = NoTotal
IdlePrecomputes == pm_belonged = {} /\ pm_last = NoCall
IdleShm == shm_objects = <<>> /\ shm_unlinks = <<>>
IdleSeries == sr_series = NoSeries
IdleDeep == dg_call = NoCall
IdleTreeCalls == tc_pc = "ready" /\ tc_limit = 0 /\ tc_stack = <<>>
IdleLate == IdlePrecomputes /\ IdleShm /\ IdleSeries /\ IdleDeep /\ IdleTreeCalls
IdleOffline ==
    IdleTree /\ IdleNodes /\ IdleBench /\ IdleCalls /\ IdleDepth /\ IdleLate

(***************************************************************************)
(* Bounds of the model.                                                    *)
(***************************************************************************)
\* letters of the alphabet the enumerated scorer inputs are written in
NumLetters == 3
\* length of the enumerated scorer inputs (the dictionaries hold 4..9)
ScorerLen == 4
\* words of CommonPool the dictionary takes as its common words
NumCommonWords == 5
\* words of ExtraPool the dictionary adds to them to make all_words
NumExtraWords == 3
\* words that the compared guesses carry
NumOrderWords == 3
GameLen == 2
MaxGameRows == 2
MaxUserGuesses == 2
NumBoards == 2
\* largest bucket count and bucket size of the compared minimax guesses
MaxBuckets == 2
\* largest entropy of the compared entropy guesses, in units of 0.4e-9
MaxEntropy == 3
\* common words of the dictionary of the tree builder
NumTreeCommonWords == 5
\* words of that dictionary that are not common
NumTreeExtraWords == 2
\* nodes of a tree that add is still called on
MaxNodes == 5
\* rows of a scoreboard made by hand
MaxBenchRows == 2
\* scoreboards of a Benchmark made by hand
MaxBenchBoards == 2
\* calls of get_best_guess on one HistogramBuilder
MaxCalls == 3


(***************************************************************************)
(* Words.                                                                  *)
(***************************************************************************)
RECURSIVE WordsOver(_, _)
\* every word of length n over the first k letters
WordsOver(k, n) ==
    IF n = 0 THEN {<<>>}
    ELSE {Append(w, c) : w \in WordsOver(k, n - 1), c \in 0..(k - 1)}

\* Word.__lt__: str comparison of the values, i.e. lexicographic
WordLess(a, b) ==
    \E i \in 1..Len(a) :
        /\ i <= Len(b)
        /\ \A j \in 1..(i - 1) : a[j] = b[j]
        /\ a[i] < b[i]

\* words of the unit tests (tests/test_model.py), as letter vectors
SPEAR == <<18, 15, 4, 0, 17>>
STRIP == <<18, 19, 17, 8, 15>>
GAMMA == <<6, 0, 12, 12, 0>>
MUMMY == <<12, 20, 12, 12, 24>>
ARGUE == <<0, 17, 6, 20, 4>>
AGREE == <<0, 6, 17, 4, 4>>
WRONG == <<22, 17, 14, 13, 6>>

\* (solution, guess, expected ternary score) rows of TestScorer.test_score_word
TestScores ==
    { <<SPEAR, STRIP, <<2, 0, 1, 0, 1>>>>,
      <<GAMMA, MUMMY, <<0, 0, 2, 2, 0>>>>,
      <<ARGUE, AGREE, <<2, 1, 1, 0, 2>>>>,
      <<SPEAR, SPEAR, <<2, 2, 2, 2, 2>>>>,
      <<AGREE, WRONG, <<0, 1, 0, 0, 1>>>> }

(***************************************************************************)
(* Scorer (scoring.py).                                                    *)
(***************************************************************************)
RECURSIVE Pow3(_)
Pow3(n) == IF n = 0 THEN 1 ELSE 3 * Pow3(n - 1)

\* Scorer.__init__: self._powers = 3 ** arange(size - 1, -1, -1)
Powers(size) == [i \in 1..size |-> Pow3(size - i)]

\* Scorer.perfect_score
perfect_score(size) == Pow3(size) - 1

\* Scorer.is_perfect_score
is_perfect_score(size, score) == score = perfect_score(size)

\* _score_word_jit: the exact matches are counted and the count multiplied by
\* ten, then one is added for every partial match; powers is not read.
score_word_jit(solution_array, guess_array, powers) ==
    LET n == Len(solution_array)
        matches == [i \in 1..n |-> solution_array[i] = guess_array[i]]
        value == 10 * Cardinality({i \in 1..n : matches[i]})
        num_times_already_observed(i) ==
            Cardinality({j \in 1..(i - 1) :
                            ~matches[j] /\ guess_array[j] = guess_array[i]})
        num_times_in_solution(i) ==
            Cardinality({j \in 1..n :
                            ~matches[j] /\ solution_array[j] = guess_array[i]})
        approx ==
            Cardinality({i \in 1..n :
                            /\ ~matches[i]
                            /\ num_times_already_observed(i) < num_times_in_solution(i)})
    IN  value + approx

\* Scorer.score_word
score_word(size, solution, guess) ==
    score_word_jit(solution, guess, Powers(size))

RECURSIVE from_ternary(_)
\* from_ternary: the value of a sequence of ternary digits
from_ternary(ternary) ==
    IF Len(ternary) = 0 THEN 0
    ELSE 3 * from_ternary(SubSeq(ternary, 1, Len(ternary) - 1))
         + ternary[Len(ternary)]

RECURSIVE base_repr3(_)
\* np.base_repr(score, base=3): the digits with no leading zero ("0" for 0)
base_repr3(score) ==
    IF score < 3 THEN <<score>>
    ELSE Append(base_repr3(score \div 3), score % 3)

\* str.zfill(size): zeros on the left up to size characters
zfill(digits, size) ==
    IF Len(digits) >= size THEN digits
    ELSE [i \in 1..(size - Len(digits)) |-> 0] \o digits

\* to_ternary without the zfill
to_ternary_not_filled(score, size) == base_repr3(score)

\* to_ternary
to_ternary(score, size) == zfill(base_repr3(score), size)

(***************************************************************************)
(* The scoring rule as the specification words it: greens first, then      *)
(* yellows left to right bounded by the unconsumed letters of the          *)
(* solution, packed in base 3.                                             *)
(***************************************************************************)
RECURSIVE YellowsBefore(_, _, _)
RuleDigit(s, g, i) ==
    IF g[i] = s[i] THEN 2
    ELSE IF Cardinality({j \in 1..Len(s) : s[j] # g[j] /\ s[j] = g[i]})
            > YellowsBefore(s, g, i)
         THEN 1 ELSE 0
\* yellows given to the letter g[i] at the positions before i
YellowsBefore(s, g, i) ==
    Cardinality({j \in 1..(i - 1) : g[j] = g[i] /\ RuleDigit(s, g, j) = 1})

RuleDigits(s, g) == [i \in 1..Len(s) |-> RuleDigit(s, g, i)]

RuleScore(s, g) == from_ternary(RuleDigits(s, g))

(***************************************************************************)
(* Specification of the scorer: one call of score_word on every pair of    *)
(* equally long words.                                                     *)
(***************************************************************************)
ScorerWords == WordsOver(NumLetters, ScorerLen)

ScorerInputs ==
    (ScorerWords \X ScorerWords) \cup {<<t[1], t[2]>> : t \in TestScores}

InitScorer ==
    /\ \E p \in ScorerInputs : sc_soln = p[1] /\ sc_guess = p[2]
    /\ sc_result = NoScore
    /\ IdlePartition /\ IdleOrder /\ IdleMatrix /\ IdleStream /\ IdleSolver
    /\ IdleGame /\ IdleEngine /\ IdleSimul
    /\ IdleOffline

ScoreWord ==
    /\ sc_result = NoScore
    /\ sc_result' = score_word(Len(sc_soln), sc_soln, sc_guess)
    /\ UNCHANGED <<sc_soln, sc_guess>>

NextScorer ==
    ScoreWord /\ UNCHANGED <<partitionVars, orderVars, matrixVars, streamVars, solverVars,
                     gameVars, engineVars, simulGameVars,
                     simulEngineVars, offlineVars>>

SpecScorer == InitScorer /\ [][NextScorer]_vars

\* C1: score_word(s, g) is the sum of digit[i] * 3^(L-1-i), digit 2 for a
\* green, 1 for a yellow by the two-pass rule, 0 otherwise; the examples of
\* the unit test score as the test expects.
C1_ScoreIsPackedRule ==
    sc_result # NoScore =>
        /\ sc_result = RuleScore(sc_soln, sc_guess)
        /\ \A t \in TestScores :
              (t[1] = sc_soln /\ t[2] = sc_guess) => sc_result = from_ternary(t[3])

\* C2: the score lies in [0, 3^L), scoring a word against itself gives the
\* perfect score, and the score is perfect exactly when guess = solution.
C2_ScoreRangeAndPerfect ==
    sc_result # NoScore =>
        LET size == Len(sc_soln) IN
        /\ sc_result \in 0..(Pow3(size) - 1)
        /\ (sc_guess = sc_soln => sc_result = perfect_score(size))
        /\ (is_perfect_score(size, sc_result) <=> sc_guess = sc_soln)

(***************************************************************************)
(* WordSeries (words.py): the sorted words and, beside them, the index of  *)
(* each word in the series it was sliced from.                             *)
(***************************************************************************)
\* the least word of a non-empty set
MinWord(S) == CHOOSE w \in S : \A v \in S : v = w \/ WordLess(w, v)

RECURSIVE SortWords(_)
\* sorted(words)
SortWords(S) ==
    IF S = {} THEN <<>>
    ELSE <<MinWord(S)>> \o SortWords(S \ {MinWord(S)})

\* WordSeries.__init__ from strings: the words sorted, index = arange(len)
WordSeries(S) ==
    LET sorted_words == SortWords(S)
    IN  [words |-> sorted_words,
         index |-> [i \in 1..Len(sorted_words) |-> i - 1]]

RECURSIVE MaskSeq(_, _)
\* numpy boolean-mask indexing: the elements whose mask is set, in order
MaskSeq(seq, mask) ==
    IF Len(seq) = 0 THEN <<>>
    ELSE LET n == Len(seq)
             front == MaskSeq(SubSeq(seq, 1, n - 1), SubSeq(mask, 1, n - 1))
         IN  IF mask[n] THEN Append(front, seq[n]) ELSE front

\* WordSeries.__getitem__ with a boolean mask
getitem(series, mask) ==
    [words |-> MaskSeq(series.words, mask),
     index |-> MaskSeq(series.index, mask)]

\* WordSeries.word_length
word_length(series) ==
    IF Len(series.index) = 0 THEN 0 ELSE Len(series.words[1])

SeqRange(seq) == {seq[i] : i \in 1..Len(seq)}

\* the non-empty series that boolean masks cut out of a series
SubSeries(series) ==
    {getitem(series, mask) : mask \in [1..Len(series.words) -> BOOLEAN]}
        \ {NoSeries}

(***************************************************************************)
(* The dictionary: four-letter words.  The common words are the first      *)
(* NumCommonWords of CommonPool, all_words adds the first NumExtraWords of *)
(* ExtraPool (load_dictionary: all_words.update(common_words)).            *)
(***************************************************************************)
\* TALE, LATE, TEAL, SEAL, LOSE, SALE, SOLE
CommonPool ==
    << <<19, 0, 11, 4>>, <<11, 0, 19, 4>>, <<19, 4, 0, 11>>, <<18, 4, 0, 11>>,
       <<11, 14, 18, 4>>, <<18, 0, 11, 4>>, <<18, 14, 11, 4>> >>

\* OLEA, TELL, ALEE, EAST, ALTO
ExtraPool ==
    << <<14, 11, 4, 0>>, <<19, 4, 11, 11>>, <<0, 11, 4, 4>>, <<4, 0, 18, 19>>,
       <<0, 11, 19, 14>> >>

\* a word outside the dictionary: LOLL
OutsideWord == <<11, 14, 11, 11>>

common_strings == {CommonPool[i] : i \in 1..NumCommonWords}
all_strings == common_strings \cup {ExtraPool[i] : i \in 1..NumExtraWords}

\* Dictionary.common_words, Dictionary.all_words
common_words == WordSeries(common_strings)
all_words == WordSeries(all_strings)

\* the Scorer the factory builds for the dictionary
size == word_length(all_words)

(***************************************************************************)
(* HistogramBuilder.get_solns_by_score (histogram.py).                     *)
(***************************************************************************)
\* get_solns_by_score with the dict keyed by the position of the score among
\* the unique scores, not by the score
get_solns_by_score_keyed_by_position(potential_solns, guess) ==
    LET n == Len(potential_solns.words)
        scores == [i \in 1..n |-> score_word(size, potential_solns.words[i], guess)]
        unique_scores == SeqRange(scores)
        position(k) == Cardinality({u \in unique_scores : u < k})
    IN  [p \in {position(k) : k \in unique_scores} |->
            getitem(potential_solns,
                    [i \in 1..n |-> position(scores[i]) = p])]

\* scores = vectorize(score_word)(potential_solns.words, guess); for each
\* unique score the series of the words that map to it
get_solns_by_score(potential_solns, guess) ==
    LET n == Len(potential_solns.words)
        scores == [i \in 1..n |-> score_word(size, potential_solns.words[i], guess)]
        unique_scores == SeqRange(scores)
    IN  [unique_score \in unique_scores |->
            getitem(potential_solns,
                    [i \in 1..n |-> scores[i] = unique_score])]

(***************************************************************************)
(* Specification of the partition: one call of get_solns_by_score on a     *)
(* candidate series cut out of the common words and a guess.               *)
(***************************************************************************)
GuessWords == SeqRange(all_words.words) \cup {OutsideWord}

InitPartition ==
    /\ hb_solns \in SubSeries(common_words)
    /\ hb_guess \in GuessWords
    /\ hb_result = NoDict
    /\ IdleScorer /\ IdleOrder /\ IdleMatrix /\ IdleStream /\ IdleSolver
    /\ IdleGame /\ IdleEngine /\ IdleSimul
    /\ IdleOffline

GetSolnsByScore ==
    /\ hb_result = NoDict
    /\ hb_result' = get_solns_by_score(hb_solns, hb_guess)
    /\ UNCHANGED <<hb_solns, hb_guess>>

NextPartition ==
    GetSolnsByScore /\ UNCHANGED <<scorerVars, orderVars, matrixVars, streamVars, solverVars,
                     gameVars, engineVars, simulGameVars,
                     simulEngineVars, offlineVars>>

SpecPartition == InitPartition /\ [][NextPartition]_vars

RECURSIVE SumOver(_, _)
\* the sum of f over a finite set
SumOver(S, f) ==
    IF S = {} THEN 0
    ELSE LET x == CHOOSE y \in S : TRUE IN f[x] + SumOver(S \ {x}, f)

improves_upon_fewer_buckets(self, other) ==
    IF self.size_of_largest_bucket # other.size_of_largest_bucket
    THEN self.size_of_largest_bucket < other.size_of_largest_bucket
    ELSE IF self.is_potential_soln # other.is_potential_soln
    THEN self.is_potential_soln
    ELSE IF self.number_of_buckets # other.number_of_buckets
    THEN self.number_of_buckets < other.number_of_buckets
    ELSE WordLess(self.word, other.word)

\* MinimaxGuess.improves_upon
improves_upon(self, other) ==
    IF self.size_of_largest_bucket # other.size_of_largest_bucket
    THEN self.size_of_largest_bucket < other.size_of_largest_bucket
    ELSE IF self.is_potential_soln # other.is_potential_soln
    THEN self.is_potential_soln
    ELSE IF self.number_of_buckets # other.number_of_buckets
    THEN self.number_of_buckets > other.number_of_buckets
    ELSE WordLess(self.word, other.word)

\* MinimaxGuess.__lt__ and __gt__ (other is a MinimaxGuess)
minimax_lt(self, other) == improves_upon(self, other)
minimax_gt(self, other) == improves_upon(other, self)

\* abs_tol=1e-9 of improves_upon and the default rel_tol=1e-9 of math.isclose.
\* An entropy is a whole number of units of 0.4e-9, so that no two entropies
\* differ by the tolerance itself: 1e-9 is 2.5 units, and a difference of
\* whole units is at most 2.5 iff it is at most 2.
AbsTol == 2
RelTolInverse == 1000000000

Abs(x) == IF x < 0 THEN 0 - x ELSE x
Max(x, y) == IF x < y THEN y ELSE x

\* math.isclose(a, b, abs_tol=1e-9):
\*   abs(a - b) <= max(rel_tol * max(abs(a), abs(b)), abs_tol)
isclose(a, b) ==
    Abs(a - b) <= Max(Max(Abs(a), Abs(b)) \div RelTolInverse, AbsTol)

\* EntropyGuess.improves_upon without the lexicographic tail
entropy_improves_upon_no_tail(self, other) ==
    IF ~isclose(self.entropy, other.entropy)
    THEN self.entropy > other.entropy
    ELSE IF self.is_potential_soln # other.is_potential_soln
    THEN self.is_potential_soln
    ELSE FALSE

\* EntropyGuess.improves_upon
entropy_improves_upon(self, other) ==
    IF ~isclose(self.entropy, other.entropy)
    THEN self.entropy > other.entropy
    ELSE IF self.is_potential_soln # other.is_potential_soln
    THEN self.is_potential_soln
    ELSE WordLess(self.word, other.word)

\* EntropyGuess.__lt__ and __gt__ (other is an EntropyGuess)
entropy_lt(self, other) == entropy_improves_upon(self, other)
entropy_gt(self, other) == entropy_improves_upon(other, self)

(***************************************************************************)
(* Specifications of the two orders: a < b, b < a and a > b are evaluated  *)
(* on every pair of guesses.                                               *)
(***************************************************************************)
OrderWords == {CommonPool[i] : i \in 1..NumOrderWords}

MinimaxGuesses ==
    [word : OrderWords, is_potential_soln : BOOLEAN,
     number_of_buckets : 1..MaxBuckets, size_of_largest_bucket : 1..MaxBuckets]

EntropyGuesses ==
    [word : OrderWords, is_potential_soln : BOOLEAN,
     entropy : 0..MaxEntropy, is_perfect_partition : BOOLEAN]

InitMinimaxOrder ==
    /\ og_a \in MinimaxGuesses
    /\ og_b \in MinimaxGuesses
    /\ og_res = NoResult
    /\ IdleScorer /\ IdlePartition /\ IdleMatrix /\ IdleStream /\ IdleSolver
    /\ IdleGame /\ IdleEngine /\ IdleSimul
    /\ IdleOffline

CompareMinimax ==
    /\ ~og_res.done
    /\ og_res' = [lt_ab |-> minimax_lt(og_a, og_b),
                  lt_ba |-> minimax_lt(og_b, og_a),
                  gt_ab |-> minimax_gt(og_a, og_b),
                  done |-> TRUE]
    /\ UNCHANGED <<og_a, og_b>>

NextMinimaxOrder ==
    CompareMinimax /\ UNCHANGED <<scorerVars, partitionVars, matrixVars, streamVars, solverVars,
                     gameVars, engineVars, simulGameVars,
                     simulEngineVars, offlineVars>>

SpecMinimaxOrder == InitMinimaxOrder /\ [][NextMinimaxOrder]_vars

InitEntropyOrder ==
    /\ og_a \in EntropyGuesses
    /\ og_b \in EntropyGuesses
    /\ og_res = NoResult
    /\ IdleScorer /\ IdlePartition /\ IdleMatrix /\ IdleStream /\ IdleSolver
    /\ IdleGame /\ IdleEngine /\ IdleSimul
    /\ IdleOffline

CompareEntropy ==
    /\ ~og_res.done
    /\ og_res' = [lt_ab |-> entropy_lt(og_a, og_b),
                  lt_ba |-> entropy_lt(og_b, og_a),
                  gt_ab |-> entropy_gt(og_a, og_b),
                  done |-> TRUE]
    /\ UNCHANGED <<og_a, og_b>>

NextEntropyOrder ==
    CompareEntropy /\ UNCHANGED <<scorerVars, partitionVars, matrixVars, streamVars, solverVars,
                     gameVars, engineVars, simulGameVars,
                     simulEngineVars, offlineVars>>

SpecEntropyOrder == InitEntropyOrder /\ [][NextEntropyOrder]_vars

\* the order the specification words: smaller largest bucket, then a
\* potential solution, then more buckets, then the smaller word
MinimaxKey(g) ==
    <<g.size_of_largest_bucket, IF g.is_potential_soln THEN 0 ELSE 1,
      0 - g.number_of_buckets>>

KeyLess(k1, k2) ==
    \E i \in 1..Len(k1) :
        /\ \A j \in 1..(i - 1) : k1[j] = k2[j]
        /\ k1[i] < k2[i]

\* C8: a < b iff a has the smaller largest bucket, then is the potential
\* solution, then has more buckets, then the smaller word; on guesses with
\* distinct words < is a strict total order; a > b exactly when b < a.
C8_MinimaxOrder ==
    og_res.done =>
        /\ og_res.lt_ab <=>
              \/ KeyLess(MinimaxKey(og_a), MinimaxKey(og_b))
              \/ /\ MinimaxKey(og_a) = MinimaxKey(og_b)
                 /\ WordLess(og_a.word, og_b.word)
        /\ og_res.gt_ab <=> og_res.lt_ba
        /\ ~(og_res.lt_ab /\ og_res.lt_ba)
        /\ og_a.word # og_b.word => (og_res.lt_ab \/ og_res.lt_ba)
        /\ \A c \in MinimaxGuesses :
              (og_res.lt_ab /\ minimax_lt(og_b, c)) => minimax_lt(og_a, c)

\* C8 witness: two guesses that tie on the largest bucket and on the flag
\* and are ordered by their bucket counts
C8_Witness ==
    /\ og_res.done
    /\ og_a \in MinimaxGuesses
    /\ og_a.size_of_largest_bucket = og_b.size_of_largest_bucket
    /\ og_a.is_potential_soln = og_b.is_potential_soln
    /\ og_a.number_of_buckets > og_b.number_of_buckets
    /\ WordLess(og_b.word, og_a.word)
    /\ og_res.lt_ab

\* "within 1e-9" is an equivalence on the entropies of a, b and c
CloseIsTransitive(a, b, c) ==
    /\ (isclose(a.entropy, b.entropy) /\ isclose(b.entropy, c.entropy))
          => isclose(a.entropy, c.entropy)
    /\ (isclose(a.entropy, c.entropy) /\ isclose(c.entropy, b.entropy))
          => isclose(a.entropy, b.entropy)
    /\ (isclose(b.entropy, a.entropy) /\ isclose(a.entropy, c.entropy))
          => isclose(b.entropy, c.entropy)

\* C9 as claimed: for guesses with distinct words exactly one of a < b and
\* b < a holds, and a < b with b < c implies a < c.
C9_EntropyOrderIsStrictTotal ==
    (og_res.done /\ og_a \in EntropyGuesses) =>
        /\ og_a.word # og_b.word => (og_res.lt_ab <=> ~og_res.lt_ba)
        /\ \A c \in EntropyGuesses :
              (og_a.word # og_b.word /\ og_b.word # c.word /\ og_a.word # c.word
               /\ og_res.lt_ab /\ entropy_lt(og_b, c)) => entropy_lt(og_a, c)

\* C9 as amended: exactly one of a < b and b < a holds for distinct words,
\* and a < b with b < c implies a < c when "within 1e-9" is transitive on
\* the three entropies.
C9_EntropyOrderAmended ==
    (og_res.done /\ og_a \in EntropyGuesses) =>
        /\ og_a.word # og_b.word => (og_res.lt_ab <=> ~og_res.lt_ba)
        /\ ~(og_res.lt_ab /\ og_res.lt_ba)
        /\ \A c \in EntropyGuesses :
              (CloseIsTransitive(og_a, og_b, c)
               /\ og_res.lt_ab /\ entropy_lt(og_b, c)) => entropy_lt(og_a, c)

\* C9 witness: a and b have entropies within the tolerance, the same flag,
\* and the lexicographic tail puts a first
C9_Witness ==
    /\ og_res.done
    /\ og_a \in EntropyGuesses
    /\ og_a.entropy # og_b.entropy
    /\ isclose(og_a.entropy, og_b.entropy)
    /\ og_a.is_potential_soln = og_b.is_potential_soln
    /\ og_a.entropy < og_b.entropy
    /\ og_res.lt_ab

(***************************************************************************)
(* ScoreMatrix and HistogramBuilder.stream (histogram.py).  Rows and       *)
(* columns are numbered from 0, as WordSeries.index numbers them.          *)
(***************************************************************************)
MaxOf(S) == CHOOSE x \in S : \A y \in S : y <= x

\* ScoreMatrix.__init__ with lazy_eval: every cell -1, no column calculated
ScoreMatrixInit(scorer_size, words, potential_solns) ==
    LET rows == MaxOf(SeqRange(words.index)) + 1
        cols == MaxOf(SeqRange(potential_solns.index)) + 1
    IN  [storage |-> [r \in 0..(rows - 1) |-> [c \in 0..(cols - 1) |-> 0 - 1]],
         is_calculated |-> [c \in 0..(cols - 1) |-> FALSE],
         is_fully_initialized |-> FALSE,
         scorer |-> scorer_size,
         potential_solns |-> potential_solns,
         all_words |-> words]

\* ScoreMatrix.precompute that returns as soon as any column of the candidates
\* is calculated, not all of them
precompute_unless_any(matrix, potential_solns) ==
    LET solns == IF Len(potential_solns.index) > 0
                 THEN potential_solns ELSE matrix.potential_solns
        columns == SeqRange(solns.index)
        position(c) == CHOOSE j \in 1..Len(solns.index) : solns.index[j] = c
        is_calculated == [c \in DOMAIN matrix.is_calculated |->
                            c \in columns \/ matrix.is_calculated[c]]
    IN  IF \/ matrix.is_fully_initialized
           \/ \E c \in columns : matrix.is_calculated[c]
        THEN matrix
        ELSE [matrix EXCEPT
                !.storage =
                    [r \in DOMAIN matrix.storage |->
                        [c \in DOMAIN matrix.storage[r] |->
                            IF c \in columns
                            THEN score_word(matrix.scorer,
                                            solns.words[position(c)],
                                            matrix.all_words.words[r + 1])
                            ELSE matrix.storage[r][c]]],
                !.is_calculated = is_calculated,
                !.is_fully_initialized =
                    \A c \in DOMAIN is_calculated : is_calculated[c]]

\* ScoreMatrix.precompute: the matrix after the call
precompute(matrix, potential_solns) ==
    LET solns == IF Len(potential_solns.index) > 0
                 THEN potential_solns ELSE matrix.potential_solns
        columns == SeqRange(solns.index)
        position(c) == CHOOSE j \in 1..Len(solns.index) : solns.index[j] = c
        is_calculated == [c \in DOMAIN matrix.is_calculated |->
                            c \in columns \/ matrix.is_calculated[c]]
    IN  IF \/ matrix.is_fully_initialized
           \/ \A c \in columns : matrix.is_calculated[c]
        THEN matrix
        ELSE [matrix EXCEPT
                !.storage =
                    [r \in DOMAIN matrix.storage |->
                        [c \in DOMAIN matrix.storage[r] |->
                            IF c \in columns
                            THEN score_word(matrix.scorer,
                                            solns.words[position(c)],
                                            matrix.all_words.words[r + 1])
                            ELSE matrix.storage[r][c]]],
                !.is_calculated = is_calculated,
                !.is_fully_initialized =
                    \A c \in DOMAIN is_calculated : is_calculated[c]]

\* stream: scores = self.score_matrix._storage[:, potential_solns.index]
column_scores(matrix, potential_solns) ==
    [r \in DOMAIN matrix.storage |->
        [j \in 1..Len(potential_solns.index) |->
            matrix.storage[r][potential_solns.index[j]]]]

\* HistogramBuilder._allocate_histogram_vector
allocate_histogram_vector(length) == [k \in 0..(Pow3(length) - 1) |-> 0]

\* _populate_histogram without hist[:] = 0
populate_histogram_not_zeroed(matrix, row, hist) ==
    LET filled == [k \in DOMAIN hist |->
                      hist[k] + Cardinality({j \in DOMAIN matrix[row] :
                                                matrix[row][j] = k})]
    IN  [hist |-> filled,
         is_potential_soln |-> filled[MaxOf(DOMAIN hist)] > 0]

\* _populate_histogram: the vector is zeroed, every score of the row adds one
\* to its cell, and the last cell tells whether the guess may be the solution
populate_histogram(matrix, row, hist) ==
    LET zeroed == [k \in DOMAIN hist |-> 0]
        filled == [k \in DOMAIN hist |->
                      zeroed[k] + Cardinality({j \in DOMAIN matrix[row] :
                                                  matrix[row][j] = k})]
    IN  [hist |-> filled,
         is_potential_soln |-> filled[MaxOf(DOMAIN hist)] > 0]

(***************************************************************************)
(* Specification of the stream: precompute is called on series of common   *)
(* words, and the generator of stream(all_words, C, factory) is started    *)
(* and stepped until it is exhausted.                                      *)
(***************************************************************************)
InitStream ==
    /\ score_matrix = ScoreMatrixInit(size, all_words, common_words)
    /\ IdleStream
    /\ IdleScorer /\ IdlePartition /\ IdleOrder /\ IdleSolver
    /\ IdleGame /\ IdleEngine /\ IdleSimul
    /\ IdleOffline

\* ScoreMatrix.precompute(subset), or precompute() for all common words
Precompute ==
    \E subset \in SubSeries(common_words) \cup {NoSeries} :
        score_matrix' = precompute(score_matrix, subset)

\* stream up to its loop: the columns are computed and copied, the vector
\* allocated
StreamStart ==
    /\ st_solns = NoSeries \/ st_i = Len(all_words.words)
    /\ \E potential_solns \in SubSeries(common_words) :
          /\ st_solns' = potential_solns
          /\ score_matrix' = precompute(score_matrix, potential_solns)
          /\ st_scores' = column_scores(score_matrix', potential_solns)
    /\ st_histogram' = allocate_histogram_vector(word_length(all_words))
    /\ st_i' = 0
    /\ st_out' = <<>>

\* one turn of the loop of stream: the histogram of word i is populated and
\* handed to the guess factory with the word and the flag
StreamYield ==
    /\ st_solns # NoSeries
    /\ st_i < Len(all_words.words)
    /\ LET populated == populate_histogram(st_scores, st_i, st_histogram)
       IN  /\ st_histogram' = populated.hist
           /\ st_out' = Append(st_out,
                               [word |-> all_words.words[st_i + 1],
                                is_potential_soln |-> populated.is_potential_soln,
                                histogram |-> populated.hist])
    /\ st_i' = st_i + 1
    /\ UNCHANGED <<score_matrix, st_solns, st_scores>>

StreamPrecompute == Precompute /\ UNCHANGED streamVars

NextStream ==
    (StreamPrecompute \/ StreamStart \/ StreamYield)
        /\ UNCHANGED <<scorerVars, partitionVars, orderVars, solverVars,
                       gameVars, engineVars, simulGameVars,
                     simulEngineVars, offlineVars>>

SpecStream == InitStream /\ [][NextStream]_vars

\* C10: stream yields one guess per word of all_words, in order, and the
\* histogram handed over for word w holds at every score k the number of
\* candidates c with score_word(c, w) = k, the bucket sizes of
\* get_solns_by_score(C, w), and so sums to |C|.
C10_StreamHistograms ==
    st_solns # NoSeries =>
        /\ Len(st_out) = st_i
        /\ st_i <= Len(all_words.words)
        /\ \A n \in 1..Len(st_out) :
              LET w == all_words.words[n]
                  buckets == get_solns_by_score(st_solns, w)
                  h == st_out[n].histogram
              IN  /\ st_out[n].word = w
                  /\ DOMAIN h = 0..(Pow3(size) - 1)
                  /\ \A k \in DOMAIN h :
                        h[k] = IF k \in DOMAIN buckets
                               THEN Len(buckets[k].words) ELSE 0
                  /\ SumOver(DOMAIN h, h) = Len(st_solns.words)

\* C10 witness: the stream is exhausted, over at least three candidates, and
\* two words in a row had different histograms
C10_Witness ==
    /\ st_solns # NoSeries
    /\ Len(st_solns.words) >= 3
    /\ st_i = Len(all_words.words)
    /\ Len(st_out) = Len(all_words.words)
    /\ \E n \in 2..Len(st_out) : st_out[n].histogram # st_out[n - 1].histogram

(***************************************************************************)
(* Solver.get_best_guess for the minimax solver (solver.py, guess.py).     *)
(***************************************************************************)
\* MinimaxGuess.from_histogram: count_nonzero and max of the vector
from_histogram(word, is_potential_soln, histogram) ==
    [word |-> word,
     is_potential_soln |-> is_potential_soln,
     number_of_buckets |->
        Cardinality({k \in DOMAIN histogram : histogram[k] # 0}),
     size_of_largest_bucket |->
        MaxOf({histogram[k] : k \in DOMAIN histogram})]

\* MinimaxSolver._build_guess
build_guess(word, is_potential_soln, histogram) ==
    from_histogram(word, is_potential_soln, histogram)

\* to_histogram: a vector as long as the largest score + 1 holding the size
\* of each bucket
to_histogram(solns_by_score) ==
    [k \in 0..MaxOf(DOMAIN solns_by_score) |->
        IF k \in DOMAIN solns_by_score
        THEN Len(solns_by_score[k].words) ELSE 0]

\* yield factory(word, is_potential_soln, histogram) for the n-th word: the
\* arguments of the factory are kept, as the vector is at that moment
stream_yield(word, out, populated) ==
    [out |-> Append(out, [word |-> word,
                          is_potential_soln |-> populated.is_potential_soln,
                          histogram |-> populated.hist]),
     hist |-> populated.hist]

\* one turn of the loop of stream, after the turns before it
stream_turn(words, scores, n, before) ==
    stream_yield(words.words[n], before.out,
                 populate_histogram(scores, n - 1, before.hist))

RECURSIVE stream_rows(_, _, _, _)
\* the loop of stream over the first n words: the guesses built so far and
\* the histogram vector as the last turn left it
stream_rows(words, scores, n, hist) ==
    IF n = 0 THEN [out |-> <<>>, hist |-> hist]
    ELSE stream_turn(words, scores, n,
                     stream_rows(words, scores, n - 1, hist))

\* stream(all_words, potential_solns, factory) run to its end: what the
\* factory is called with, in order
streamed(matrix, words, potential_solns) ==
    stream_rows(words,
                column_scores(precompute(matrix, potential_solns),
                              potential_solns),
                Len(words.words),
                allocate_histogram_vector(word_length(words))).out

\* the guesses _build_guess makes of what is streamed
guesses_of(yielded) ==
    [n \in 1..Len(yielded) |->
        build_guess(yielded[n].word, yielded[n].is_potential_soln,
                    yielded[n].histogram)]

\* Solver.all_guesses: the guesses of stream(all_words, potential_solns,
\* _build_guess) run to its end
all_guesses(matrix, words, potential_solns) ==
    guesses_of(streamed(matrix, words, potential_solns))

\* the smaller of the minimum so far and the next guess
min_of_two(best, guess) == IF minimax_lt(guess, best) THEN guess ELSE best

RECURSIVE min_guess(_)
\* min(all_guesses): the first guess that no later guess is < than
min_guess(guesses) ==
    IF Len(guesses) = 1 THEN guesses[1]
    ELSE min_of_two(min_guess(SubSeq(guesses, 1, Len(guesses) - 1)),
                    guesses[Len(guesses)])

\* Solver.get_best_guess
get_best_guess(matrix, words, potential_solns) ==
    IF Len(potential_solns.words) <= 2
    THEN LET guess == potential_solns.words[1]
             solns_by_score == get_solns_by_score(potential_solns, guess)
             histogram == to_histogram(solns_by_score)
         IN  build_guess(guess, TRUE, histogram)
    ELSE min_guess(all_guesses(matrix, words, potential_solns))

\* MinimaxSolver.all_seeds: OLEA, RAISE, TAILER, TENAILS, CENTRALS, SECRETION
all_seeds ==
    << <<14, 11, 4, 0>>, <<17, 0, 8, 18, 4>>, <<19, 0, 8, 11, 4, 17>>,
       <<19, 4, 13, 0, 8, 11, 18>>, <<2, 4, 13, 19, 17, 0, 11, 18>>,
       <<18, 4, 2, 17, 4, 19, 8, 14, 13>> >>

\* Solver.seed: seed_by_size[size]
seed(length) ==
    all_seeds[CHOOSE n \in 1..Len(all_seeds) :
                 /\ Len(all_seeds[n]) = length
                 /\ \A m \in (n + 1)..Len(all_seeds) : Len(all_seeds[m]) # length]

(***************************************************************************)
(* The solver of tests/test_solver.py: twenty candidates and five more     *)
(* words, with a HistogramBuilder of its own.                              *)
(***************************************************************************)
\* SNAKE SPACE SPADE SCALE SCARE SNARE SPARE SHADE SHAKE SHAME SHAPE SHAVE
\* SHALE SHARE SHARK SKATE STAGE STAVE SLATE STALE
remaining ==
    { <<18, 13, 0, 10, 4>>, <<18, 15, 0, 2, 4>>, <<18, 15, 0, 3, 4>>,
      <<18, 2, 0, 11, 4>>, <<18, 2, 0, 17, 4>>, <<18, 13, 0, 17, 4>>,
      <<18, 15, 0, 17, 4>>, <<18, 7, 0, 3, 4>>, <<18, 7, 0, 10, 4>>,
      <<18, 7, 0, 12, 4>>, <<18, 7, 0, 15, 4>>, <<18, 7, 0, 21, 4>>,
      <<18, 7, 0, 11, 4>>, <<18, 7, 0, 17, 4>>, <<18, 7, 0, 17, 10>>,
      <<18, 10, 0, 19, 4>>, <<18, 19, 0, 6, 4>>, <<18, 19, 0, 21, 4>>,
      <<18, 11, 0, 19, 4>>, <<18, 19, 0, 11, 4>> }

BLAST == <<1, 11, 0, 18, 19>>
TRASH == <<19, 17, 0, 18, 7>>
CARRY == <<2, 0, 17, 17, 24>>
NYMPH == <<13, 24, 12, 15, 7>>
PLANT == <<15, 11, 0, 13, 19>>

test_potential_solns == WordSeries(remaining)
test_all_words == WordSeries({BLAST, TRASH, CARRY, NYMPH, PLANT} \cup remaining)

\* sut.get_best_guess(all_words, potential_solns) of the test
test_best_guess ==
    get_best_guess(ScoreMatrixInit(5, test_all_words, test_potential_solns),
                   test_all_words, test_potential_solns)

(***************************************************************************)
(* Specification of the solver: after any calls of precompute,             *)
(* get_best_guess is called once, on a series of common words or as in the *)
(* test; precompute may be called again afterwards.                        *)
(***************************************************************************)
InitSolver ==
    /\ score_matrix = ScoreMatrixInit(size, all_words, common_words)
    /\ IdleSolver
    /\ IdleScorer /\ IdlePartition /\ IdleOrder /\ IdleStream
    /\ IdleGame /\ IdleEngine /\ IdleSimul
    /\ IdleOffline

\* solver.get_best_guess(all_words, potential_solns); the stream computes
\* the columns of the candidates when there are more than two
GetBestGuess ==
    \E potential_solns \in SubSeries(common_words) :
        /\ sv_best = NoGuess
        /\ sv_solns' = potential_solns
        /\ sv_best' = get_best_guess(score_matrix, all_words, potential_solns)
        /\ score_matrix' = IF Len(potential_solns.words) <= 2
                           THEN score_matrix
                           ELSE precompute(score_matrix, potential_solns)

\* the call of the test, on the test's own builder
TestGetBestGuess ==
    /\ sv_best = NoGuess
    /\ sv_solns' = test_potential_solns
    /\ sv_best' = test_best_guess
    /\ UNCHANGED score_matrix

SolverPrecompute == Precompute /\ UNCHANGED solverVars

NextSolver ==
    (GetBestGuess \/ TestGetBestGuess \/ SolverPrecompute)
        /\ UNCHANGED <<scorerVars, partitionVars, orderVars, streamVars,
                       gameVars, engineVars, simulGameVars,
                     simulEngineVars, offlineVars>>

SpecSolver == InitSolver /\ [][NextSolver]_vars

\* the guess of word w as the heuristic builds it from the partition of C
partition_guess(potential_solns, w) ==
    LET buckets == get_solns_by_score(potential_solns, w)
    IN  [word |-> w,
         is_potential_soln |-> w \in SeqRange(potential_solns.words),
         number_of_buckets |-> Cardinality(DOMAIN buckets),
         size_of_largest_bucket |->
            MaxOf({Len(buckets[k].words) : k \in DOMAIN buckets})]

\* C7: get_best_guess(A, C) returns the first word of C when |C| <= 2;
\* otherwise it returns a word of A that no other word of A improves upon
\* in the order of the guesses built from the partition of C; and the call
\* of the test, on twenty S-words and five more, returns TRASH.
C7_BestGuessIsMinimal ==
    sv_best # NoGuess =>
        LET A == IF sv_solns = test_potential_solns
                 THEN test_all_words ELSE all_words
            returned == partition_guess(sv_solns, sv_best.word)
        IN  /\ sv_best.word \in SeqRange(A.words)
            /\ Len(sv_solns.words) <= 2 => sv_best.word = sv_solns.words[1]
            /\ Len(sv_solns.words) > 2 =>
                  \A n \in 1..Len(A.words) :
                      ~improves_upon(partition_guess(sv_solns, A.words[n]),
                                     returned)
            /\ sv_solns = test_potential_solns => sv_best.word = TRASH

(***************************************************************************)
(* Game and Scoreboard (game.py, boards.py).                               *)
(***************************************************************************)
\* Game.__init__
GameInit(potential_solns, soln, opening_guesses) ==
    [potential_solns |-> potential_solns,
     soln |-> soln,
     scoreboard |-> <<>>,
     is_solved |-> FALSE,
     word_length |-> word_length(potential_solns),
     opening_guesses |-> opening_guesses]

\* Scoreboard.add_row: a missing solution is shown as question marks
add_row(rows, n, soln, guess, score, num_left) ==
    LET answer == IF Len(soln) > 0 THEN soln
                  ELSE [i \in 1..Len(guess) |-> 0 - 2]
    IN  Append(rows, [n |-> n, soln |-> answer, guess |-> guess,
                      score |-> score, num_left |-> num_left])

\* Game.update
update(self, n, guess, score, potential_solns) ==
    LET ternary_score == to_ternary(score, self.word_length)
    IN  [self EXCEPT
            !.potential_solns = potential_solns,
            !.scoreboard = add_row(self.scoreboard, n, self.soln, guess,
                                   ternary_score, Len(potential_solns.words)),
            !.is_solved = \A i \in 1..Len(ternary_score) : ternary_score[i] = 2]

\* Game.user_guess reading one place further on
user_guess_one_further(self, n) ==
    IF n + 1 >= Len(self.opening_guesses) THEN NoWord
    ELSE self.opening_guesses[n + 2]

\* Game.user_guess: opening_guesses[n] counted from 0, None past the end
user_guess(self, n) ==
    IF n >= Len(self.opening_guesses) THEN NoWord
    ELSE self.opening_guesses[n + 1]

(***************************************************************************)
(* Specification of the game: a Game over the words of GameLen letters A   *)
(* and B is updated round after round with any guess, any score of its     *)
(* word length and either all or one of the candidates.                    *)
(***************************************************************************)
GameSeries == WordSeries(WordsOver(2, GameLen))

InitGame ==
    /\ game = GameInit(GameSeries, GameSeries.words[1], <<>>)
    /\ IdleEngine /\ IdleSimul
    /\ IdleScorer /\ IdlePartition /\ IdleOrder /\ IdleMatrix /\ IdleStream
    /\ IdleSolver
    /\ IdleOffline

\* game.update(n, guess, score, potential_solns)
GameUpdate ==
    /\ Len(game.scoreboard) < MaxGameRows
    /\ \E guess \in {GameSeries.words[1], GameSeries.words[2]},
          score \in 0..(Pow3(game.word_length) - 1),
          potential_solns \in {GameSeries,
                               getitem(GameSeries,
                                       [i \in 1..Len(GameSeries.words) |-> i = 1])} :
          game' = update(game, Len(game.scoreboard) + 1, guess, score,
                         potential_solns)

NextGame ==
    GameUpdate
        /\ UNCHANGED <<scorerVars, partitionVars, orderVars, matrixVars,
                       streamVars, solverVars, engineVars, simulGameVars,
                       simulEngineVars, offlineVars>>

SpecGame == InitGame /\ [][NextGame]_vars

\* C5: after any sequence of Game.update calls, is_solved is true iff the
\* score in the last scoreboard row is the perfect score of the game's word
\* length, i.e. word_length digits that are all 2; before any call it is
\* false.
C5_SolvedIffLastRowPerfect ==
    game # NoGame =>
        LET rows == game.scoreboard
        IN  IF Len(rows) = 0 THEN ~game.is_solved
            ELSE LET last == rows[Len(rows)].score
                 IN  /\ game.is_solved <=>
                           from_ternary(last) = perfect_score(game.word_length)
                     /\ game.is_solved <=>
                           last = [i \in 1..game.word_length |-> 2]

\* C5 witness: a game of two rows that the second row solved
C5_Witness ==
    /\ game # NoGame
    /\ Len(game.scoreboard) = 2
    /\ game.is_solved
    /\ from_ternary(game.scoreboard[1].score) # perfect_score(game.word_length)
    /\ from_ternary(game.scoreboard[2].score) = perfect_score(game.word_length)

(***************************************************************************)
(* Engine.run (engine.py) with the minimax solver.  A round of the loop    *)
(* is one step: the partition, the score, the update of the game, the      *)
(* return when solved and otherwise the choice of the next guess.          *)
(***************************************************************************)
MAX_ITERS == 20

RECURSIVE SeqsUpTo(_, _)
\* the lists of at most n elements of S
SeqsUpTo(S, n) ==
    IF n = 0 THEN {<<>>}
    ELSE LET shorter == SeqsUpTo(S, n - 1)
         IN  shorter \cup {Append(q, x) : q \in shorter, x \in S}

\* the solutions played: every common word and a word that is not common
EngineSolutions == common_strings \cup {ExtraPool[1]}

\* the opening guesses of the user: a common word and a word that is not in
\* the dictionary
UserGuessLists == SeqsUpTo({CommonPool[1], OutsideWord}, MaxUserGuesses)

InitEngine ==
    /\ score_matrix = ScoreMatrixInit(size, all_words, common_words)
    /\ IdleGame /\ IdleEngine /\ IdleSimul
    /\ IdleScorer /\ IdlePartition /\ IdleOrder /\ IdleStream /\ IdleSolver
    /\ IdleSimul
    /\ IdleOffline

\* run up to the loop: the game is made and the first guess chosen
EngineStart ==
    /\ en_pc = "ready"
    /\ \E solution \in EngineSolutions, user_guesses \in UserGuessLists :
          LET available_answers == common_words
              new_game == GameInit(available_answers, solution, user_guesses)
              first == user_guess(new_game, 0)
          IN  /\ game' = new_game
              /\ en_available' = available_answers
              /\ en_guess' = IF Len(first) > 0 THEN first
                             ELSE seed(word_length(all_words))
    /\ en_i' = 1
    /\ en_pc' = "running"
    /\ UNCHANGED score_matrix

\* one turn of the loop whose score is a key of the histogram
EngineRound ==
    /\ en_pc = "running"
    /\ en_i <= MAX_ITERS
    /\ LET histogram == get_solns_by_score(en_available, en_guess)
           score == score_word(size, game.soln, en_guess)
       IN  /\ score \in DOMAIN histogram
           /\ LET available_answers == histogram[score]
                  updated == update(game, en_i, en_guess, score,
                                    available_answers)
                  user == user_guess(updated, en_i)
              IN  /\ game' = updated
                  /\ en_available' = available_answers
                  /\ IF updated.is_solved
                     THEN /\ en_pc' = "returned"
                          /\ UNCHANGED <<en_i, en_guess, score_matrix>>
                     ELSE /\ en_pc' = "running"
                          /\ en_i' = en_i + 1
                          /\ IF Len(user) > 0
                             THEN /\ en_guess' = user
                                  /\ UNCHANGED score_matrix
                             ELSE /\ en_guess' =
                                        get_best_guess(score_matrix, all_words,
                                                       available_answers).word
                                  /\ score_matrix' =
                                        IF Len(available_answers.words) <= 2
                                        THEN score_matrix
                                        ELSE precompute(score_matrix,
                                                        available_answers)

\* histogram[score] when no candidate scores as the solution does
EngineKeyError ==
    /\ en_pc = "running"
    /\ en_i <= MAX_ITERS
    /\ score_word(size, game.soln, en_guess)
          \notin DOMAIN get_solns_by_score(en_available, en_guess)
    /\ en_pc' = "KeyError"
    /\ UNCHANGED <<game, en_i, en_guess, en_available, score_matrix>>

\* the loop is over: raise FailedToFindASolutionError
EngineFail ==
    /\ en_pc = "running"
    /\ en_i = MAX_ITERS + 1
    /\ en_pc' = "failed"
    /\ UNCHANGED <<game, en_i, en_guess, en_available, score_matrix>>

NextEngine ==
    (EngineStart \/ EngineRound \/ EngineKeyError \/ EngineFail)
        /\ UNCHANGED <<scorerVars, partitionVars, orderVars, streamVars,
                       solverVars, simulGameVars, simulEngineVars, offlineVars>>

SpecEngine == InitEngine /\ [][NextEngine]_vars

\* C4: Engine.run returns the game in the first round whose score is
\* perfect, i.e. whose guess is the solution, with is_solved true and at most
\* MAX_ITERS rows; if no round scores perfectly it raises
\* FailedToFindASolutionError after exactly MAX_ITERS rounds; a round past
\* MAX_ITERS is never played.  (Solutions among the common words.)
C4_EngineTermination ==
    (game # NoGame /\ game.soln \in common_strings) =>
        LET rows == game.scoreboard
            perfect(n) == RuleScore(game.soln, rows[n].guess)
                             = perfect_score(game.word_length)
        IN  /\ Len(rows) <= MAX_ITERS
            /\ en_pc = "returned" =>
                  /\ game.is_solved
                  /\ Len(rows) >= 1
                  /\ perfect(Len(rows))
            /\ \A n \in 1..Len(rows) :
                  perfect(n) => /\ n = Len(rows)
                                /\ en_pc = "returned"
                                /\ game.is_solved
            /\ en_pc = "failed" =>
                  /\ Len(rows) = MAX_ITERS
                  /\ \A n \in 1..Len(rows) : ~perfect(n)

\* the common words that score as the solution does against each of the
\* first k guesses played
candidates_after(k) ==
    getitem(common_words,
            [i \in 1..Len(common_words.words) |->
                \A j \in 1..k :
                    score_word(size, common_words.words[i],
                               game.scoreboard[j].guess)
                        = score_word(size, game.soln, game.scoreboard[j].guess)])

\* the guess round n is to play
expected_guess(n) ==
    IF n <= Len(game.opening_guesses) THEN game.opening_guesses[n]
    ELSE IF n = 1 THEN seed(size)
    ELSE get_best_guess(ScoreMatrixInit(size, all_words, common_words),
                        all_words, candidates_after(n - 1)).word

\* C6: the guess played in round n is the n-th user guess for every n up to
\* the number of user guesses; with no user guess round 1 plays the seed of
\* the word length; every other round plays the word of
\* get_best_guess(all words, candidates left after the previous round).  It
\* holds of every row of the scoreboard and of the guess about to be played.
C6_GuessSequence ==
    game # NoGame =>
        /\ \A n \in 1..Len(game.scoreboard) :
              /\ game.scoreboard[n].n = n
              /\ game.scoreboard[n].guess = expected_guess(n)
        /\ (en_pc = "running" /\ en_i <= MAX_ITERS) =>
              /\ en_i = Len(game.scoreboard) + 1
              /\ en_guess = expected_guess(en_i)

\* C6 witness: a run with one user guess that left more than two candidates,
\* so that round 2 played the minimum of the stream, and that went on
C6_Witness ==
    /\ game # NoGame
    /\ Len(game.opening_guesses) = 1
    /\ Len(game.scoreboard) >= 3
    /\ Len(candidates_after(1).words) > 2
    /\ game.scoreboard[1].guess = game.opening_guesses[1]
    /\ game.scoreboard[2].guess # game.scoreboard[1].guess
    /\ game.scoreboard[3].guess # game.scoreboard[2].guess

\* C11: for every word w handed to the factory by stream(A, C, factory) the
\* is_potential_soln flag is true iff w is a member of C, and iff the cell of
\* the perfect score in the histogram is not zero.
C11_FlagIffMember ==
    st_solns # NoSeries =>
        \A n \in 1..Len(st_out) :
            /\ st_out[n].is_potential_soln
                  <=> st_out[n].word \in SeqRange(st_solns.words)
            /\ st_out[n].is_potential_soln
                  <=> st_out[n].histogram[perfect_score(size)] > 0

(***************************************************************************)
(* SimultaneousGame (game.py): the child games are numbered from 1 in      *)
(* board order.                                                            *)
(***************************************************************************)
\* SimultaneousGame.__init__
SimultaneousGameInit(potential_solns, solns, opening_guesses) ==
    [games |-> [b \in 1..Len(solns) |->
                   GameInit(potential_solns, solns[b], opening_guesses)],
     scoreboard |-> <<>>,
     is_solved |-> FALSE,
     word_length |-> word_length(potential_solns)]

\* SimultaneousGame.update looking at the updated game only
simul_update_this_game_only(self, n, b, guess, score, potential_solns) ==
    LET updated == update(self.games[b], n, guess, score, potential_solns)
        row == updated.scoreboard[Len(updated.scoreboard)]
    IN  [self EXCEPT
            !.games = [self.games EXCEPT ![b] = updated],
            !.scoreboard = Append(self.scoreboard, row),
            !.is_solved = updated.is_solved]

\* SimultaneousGame.update, game being the b-th child: the child is updated,
\* its row appended to the shared scoreboard, is_solved = all(children)
simul_update(self, n, b, guess, score, potential_solns) ==
    LET updated == update(self.games[b], n, guess, score, potential_solns)
        row == updated.scoreboard[Len(updated.scoreboard)]
        games == [self.games EXCEPT ![b] = updated]
    IN  [self EXCEPT
            !.games = games,
            !.scoreboard = Append(self.scoreboard, row),
            !.is_solved = \A g \in 1..Len(games) : games[g].is_solved]

\* SimultaneousGame.user_guess
simul_user_guess(self, n) == user_guess(self.games[1], n)

(***************************************************************************)
(* Specification of the simultaneous game: NumBoards games over the words  *)
(* of GameLen letters A and B; any child is updated with any score of the  *)
(* word length.                                                            *)
(***************************************************************************)
InitSimulGame ==
    /\ simul_game = SimultaneousGameInit(
                        GameSeries,
                        [b \in 1..NumBoards |->
                            GameSeries.words[((b - 1) % Len(GameSeries.words)) + 1]],
                        <<>>)
    /\ sn_pc = "ready" /\ sn_i = 0 /\ sn_guess = NoWord /\ sn_best = NoGuess
    /\ IdleScorer /\ IdlePartition /\ IdleOrder /\ IdleMatrix /\ IdleStream
    /\ IdleSolver /\ IdleGame /\ IdleEngine
    /\ IdleOffline

\* simul_game.update(n, game, guess, score, potential_solns)
SimulGameUpdate ==
    /\ Len(simul_game.scoreboard) < MaxGameRows
    /\ \E b \in 1..Len(simul_game.games),
          score \in 0..(Pow3(simul_game.word_length) - 1) :
          simul_game' = simul_update(simul_game,
                                     Len(simul_game.games[b].scoreboard) + 1,
                                     b, GameSeries.words[1], score, GameSeries)

NextSimulGame ==
    SimulGameUpdate
        /\ UNCHANGED <<scorerVars, partitionVars, orderVars, matrixVars,
                       streamVars, solverVars, gameVars, engineVars,
                       simulEngineVars, offlineVars>>

SpecSimulGame == InitSimulGame /\ [][NextSimulGame]_vars

\* C12: after every SimultaneousGame.update, is_solved is true iff every
\* child Game is solved.
C12_SimulSolvedIffAllSolved ==
    (simul_game # NoGame /\ Len(simul_game.scoreboard) > 0) =>
        (simul_game.is_solved
            <=> \A b \in 1..Len(simul_game.games) : simul_game.games[b].is_solved)

\* C12 witness: the last update solved one child while another is unsolved
C12_Witness ==
    /\ simul_game # NoGame
    /\ Len(simul_game.scoreboard) >= 2
    /\ \E b, c \in 1..Len(simul_game.games) :
          /\ simul_game.games[b].is_solved
          /\ Len(simul_game.games[b].scoreboard) > 0
          /\ simul_game.scoreboard[Len(simul_game.scoreboard)]
                = simul_game.games[b].scoreboard[Len(simul_game.games[b].scoreboard)]
          /\ ~simul_game.games[c].is_solved
    /\ ~simul_game.is_solved

(***************************************************************************)
(* MinimaxSimulGuess and MinimaxSimulSolver (guess.py, simul_solver.py).   *)
(* A call that raises is the record of the exception.  pct_left, a product *)
(* of fractions, is kept as numerator and denominator: with the few words  *)
(* of the dictionary two different products are further apart than the     *)
(* tolerance of isclose, so being close is being equal.                    *)
(***************************************************************************)
Raised(name) == [raised |-> name]
IsRaised(result) == "raised" \in DOMAIN result

pct_close(a, b) == a.num * b.den = b.num * a.den
pct_less(a, b) == a.num * b.den < b.num * a.den

\* MinimaxSimulGuess.improves_upon
simul_improves_upon(self, other) ==
    IF ~pct_close(self.pct_left, other.pct_left)
    THEN pct_less(self.pct_left, other.pct_left)
    ELSE IF self.min # other.min THEN self.min < other.min
    ELSE IF self.sum # other.sum THEN self.sum < other.sum
    ELSE IF self.max # other.max THEN self.max < other.max
    ELSE IF self.is_potential_soln # other.is_potential_soln
    THEN self.is_potential_soln
    ELSE IF self.num_buckets # other.num_buckets
    THEN self.num_buckets > other.num_buckets
    ELSE WordLess(self.word, other.word)

\* MinimaxSimulGuess.__lt__
simul_lt(self, other) == simul_improves_upon(self, other)

RECURSIVE ProductOver(_, _)
ProductOver(n, f) == IF n = 0 THEN 1 ELSE f[n] * ProductOver(n - 1, f)

RECURSIVE SumSeq(_, _)
SumSeq(n, f) == IF n = 0 THEN 0 ELSE f[n] + SumSeq(n - 1, f)

MinOf(S) == CHOOSE x \in S : \A y \in S : x <= y

\* MinimaxSimulSolver.single_guess
single_guess(guess, is_potential_soln, histogram) ==
    from_histogram(guess, is_potential_soln, histogram)

\* MinimaxSimulSolver.to_simul_guess: guess.is_common_word is read of every
\* single guess, and a MinimaxGuess has no such attribute
to_simul_guess(games, guess_tuple) ==
    LET k == Len(guess_tuple)
    IN  IF k = 0 THEN Raised("IndexError")
        ELSE IF \E j \in 1..k : "is_common_word" \notin DOMAIN guess_tuple[j]
        THEN Raised("AttributeError")
        ELSE LET largest_sizes ==
                     [j \in 1..k |-> guess_tuple[j].size_of_largest_bucket]
                 num_solutions ==
                     [j \in 1..Len(games) |-> Len(games[j].potential_solns.words)]
             IN  [word |-> guess_tuple[1].word,
                  is_potential_soln |->
                     \E j \in 1..k : guess_tuple[j].is_common_word,
                  pct_left |-> [num |-> ProductOver(k, largest_sizes),
                                den |-> ProductOver(k, num_solutions)],
                  min |-> MinOf(SeqRange(largest_sizes)),
                  sum |-> SumSeq(k, largest_sizes),
                  max |-> MaxOf(SeqRange(largest_sizes)),
                  num_buckets |->
                     SumSeq(k, [j \in 1..k |-> guess_tuple[j].number_of_buckets])]

RECURSIVE Unsolved(_)
\* [game for game in games if not game.is_solved], as board numbers
Unsolved(games) ==
    IF Len(games) = 0 THEN <<>>
    ELSE LET front == Unsolved(SubSeq(games, 1, Len(games) - 1))
         IN  IF games[Len(games)].is_solved THEN front
             ELSE Append(front, Len(games))

\* for guess_tuple in zip(*guess_streams): to_simul_guess of each tuple
simul_zip(words, unsolved_games, guess_streams) ==
    IF Len(unsolved_games) = 0 THEN <<>>
    ELSE [n \in 1..Len(words.words) |->
             to_simul_guess(unsolved_games,
                            [j \in 1..Len(unsolved_games) |->
                                guess_streams[j][n]])]

\* the games of the given board numbers
games_of(games, boards) == [j \in 1..Len(boards) |-> games[boards[j]]]

\* the stream of single guesses of each of the games
streams_of(matrix, words, unsolved_games) ==
    [j \in 1..Len(unsolved_games) |->
        all_guesses(matrix, words, unsolved_games[j].potential_solns)]

\* SimulSolver.all_guesses: one stream per unsolved game, zipped
simul_all_guesses(matrix, words, games) ==
    simul_zip(words, games_of(games, Unsolved(games)),
              streams_of(matrix, words, games_of(games, Unsolved(games))))

\* the smaller of the minimum so far and the next item, an exception raised
\* before ending the iteration
simul_min_of_two(best, guess) ==
    IF IsRaised(best) THEN best
    ELSE IF IsRaised(guess) THEN guess
    ELSE IF simul_lt(guess, best) THEN guess ELSE best

RECURSIVE simul_min(_)
\* min(all_guesses): the first item that raises ends it, no item is a
\* ValueError
simul_min(guesses) ==
    IF Len(guesses) = 0 THEN Raised("ValueError")
    ELSE IF Len(guesses) = 1 THEN guesses[1]
    ELSE simul_min_of_two(simul_min(SubSeq(guesses, 1, Len(guesses) - 1)),
                          guesses[Len(guesses)])

\* the boards the first loop of get_best_guess stops at: unsolved, with no
\* more than one candidate
Singles(games) ==
    {b \in 1..Len(games) :
        ~games[b].is_solved /\ Len(games[b].potential_solns.words) <= 1}

\* SimulSolver.get_best_guess
simul_get_best_guess(matrix, words, games) ==
    IF Singles(games) # {}
    THEN LET single == games[MinOf(Singles(games))]
             word == single.potential_solns.words[1]
             solns_by_score == get_solns_by_score(single.potential_solns, word)
             histogram == to_histogram(solns_by_score)
         IN  to_simul_guess(<<single>>, <<single_guess(word, TRUE, histogram)>>)
    ELSE simul_min(simul_all_guesses(matrix, words, games))

RECURSIVE precompute_all(_, _, _)
\* the columns the streams of all_guesses compute, stream after stream
precompute_all(matrix, games, unsolved) ==
    IF Len(unsolved) = 0 THEN matrix
    ELSE precompute(precompute_all(matrix, games,
                                   SubSeq(unsolved, 1, Len(unsolved) - 1)),
                    games[unsolved[Len(unsolved)]].potential_solns)

\* MinimaxSimulSolver.all_seeds, built from a set
simul_all_seeds == SeqRange(all_seeds)

\* SimulSolver.seed
simul_seed(length) == CHOOSE word \in simul_all_seeds : Len(word) = length

(***************************************************************************)
(* SimulEngine.run (engine.py) with the minimax solver.  A round of the    *)
(* outer loop is one step.  The solutions are common words, so that the    *)
(* score of a solution is always a key of the histogram.                   *)
(***************************************************************************)
simul_max_iters(solns) == 20 + Len(solns)

\* for game in simul_game that leaves the loop after the first unsolved game
play_round_first_unsolved_only(simul, i, guess, b) ==
    IF \A g \in b..Len(simul.games) : simul.games[g].is_solved THEN simul
    ELSE LET first == CHOOSE g \in b..Len(simul.games) :
                         /\ ~simul.games[g].is_solved
                         /\ \A h \in b..(g - 1) : simul.games[h].is_solved
             histogram == get_solns_by_score(simul.games[first].potential_solns,
                                             guess)
             score == score_word(size, simul.games[first].soln, guess)
         IN  simul_update(simul, i, first, guess, score, histogram[score])

RECURSIVE play_round(_, _, _, _)
\* for game in simul_game: the games from board b on, in board order
play_round(simul, i, guess, b) ==
    IF b > Len(simul.games) THEN simul
    ELSE IF simul.games[b].is_solved THEN play_round(simul, i, guess, b + 1)
    ELSE LET available_answers == simul.games[b].potential_solns
             histogram == get_solns_by_score(available_answers, guess)
             score == score_word(size, simul.games[b].soln, guess)
             new_available_answers == histogram[score]
         IN  play_round(simul_update(simul, i, b, guess, score,
                                     new_available_answers),
                        i, guess, b + 1)

\* the solutions played: one to NumBoards common words
SimulSolutions == SeqsUpTo(common_strings, NumBoards) \ {<<>>}

\* the opening guesses of the user: short lists, and lists long enough to
\* cover every round
SimulUserGuessLists ==
    UserGuessLists
        \cup {[n \in 1..(simul_max_iters([b \in 1..NumBoards |-> b]) + 1) |-> word] :
                 word \in {CommonPool[1], OutsideWord}}

InitSimulEngine ==
    /\ score_matrix = ScoreMatrixInit(size, all_words, common_words)
    /\ IdleSimul
    /\ IdleScorer /\ IdlePartition /\ IdleOrder /\ IdleStream /\ IdleSolver
    /\ IdleGame /\ IdleEngine
    /\ IdleOffline

\* run up to the loop
SimulStart ==
    /\ sn_pc = "ready"
    /\ \E solns \in SimulSolutions, user_guesses \in SimulUserGuessLists :
          LET made == SimultaneousGameInit(common_words, solns, user_guesses)
              first == simul_user_guess(made, 0)
          IN  /\ simul_game' = made
              /\ sn_guess' = IF Len(first) > 0 THEN first
                             ELSE simul_seed(word_length(all_words))
    /\ sn_i' = 1
    /\ sn_pc' = "running"
    /\ UNCHANGED <<score_matrix, sn_best>>

\* the end of a turn of the outer loop, the games having been played: run
\* returns when all are solved and otherwise chooses the next guess, and an
\* exception of the solver escapes
AfterRound(played, user, best) ==
           /\ simul_game' = played
           /\ IF played.is_solved
              THEN /\ sn_pc' = "returned"
                   /\ UNCHANGED <<sn_i, sn_guess, sn_best, score_matrix>>
              ELSE IF Len(user) > 0
              THEN /\ sn_pc' = "running"
                   /\ sn_i' = sn_i + 1
                   /\ sn_guess' = user
                   /\ sn_best' = NoGuess
                   /\ UNCHANGED score_matrix
              ELSE /\ sn_best' = best
                   /\ score_matrix' =
                         IF Singles(played.games) # {} THEN score_matrix
                         ELSE precompute_all(score_matrix, played.games,
                                             Unsolved(played.games))
                   /\ IF IsRaised(best)
                      THEN /\ sn_pc' = best.raised
                           /\ UNCHANGED <<sn_i, sn_guess>>
                      ELSE /\ sn_pc' = "running"
                           /\ sn_i' = sn_i + 1
                           /\ sn_guess' = best.word

\* the user's guess and the solver's for the turn after the one played
SimulChoice(played) ==
    AfterRound(played, simul_user_guess(played, sn_i),
               simul_get_best_guess(score_matrix, all_words, played.games))

\* one turn of the outer loop: every unsolved game is scored and updated
SimulRound ==
    /\ sn_pc = "running"
    /\ sn_i <= simul_max_iters(simul_game.games)
    /\ SimulChoice(play_round(simul_game, sn_i, sn_guess, 1))

\* the loop is over: raise FailedToFindASolutionError
SimulFail ==
    /\ sn_pc = "running"
    /\ sn_i = simul_max_iters(simul_game.games) + 1
    /\ sn_pc' = "failed"
    /\ UNCHANGED <<simul_game, sn_i, sn_guess, sn_best, score_matrix>>

NextSimulEngine ==
    (SimulStart \/ SimulRound \/ SimulFail)
        /\ UNCHANGED <<scorerVars, partitionVars, orderVars, streamVars,
                       solverVars, gameVars, engineVars, offlineVars>>

SpecSimulEngine == InitSimulEngine /\ [][NextSimulEngine]_vars

\* the rounds SimulEngine.run has played
rounds_played ==
    IF Len(simul_game.scoreboard) = 0 THEN 0
    ELSE simul_game.scoreboard[Len(simul_game.scoreboard)].n

\* C13: SimulEngine.run over N boards ends in one of two ways: it returns
\* at the end of the first round after which every board is solved, or it
\* raises FailedToFindASolutionError after exactly 20 + N rounds with some
\* board unsolved; round 20 + N + 1 is never played.
C13_SimulEngineTermination ==
    sn_pc # "ready" =>
        LET N == Len(simul_game.games)
        IN  /\ rounds_played <= 20 + N
            /\ sn_pc \in {"running", "returned", "failed"}
            /\ sn_pc = "returned" => simul_game.is_solved
            /\ sn_pc = "failed" =>
                  /\ rounds_played = 20 + N
                  /\ ~simul_game.is_solved
            /\ (sn_pc = "running" /\ rounds_played > 0) =>
                  ~simul_game.is_solved

\* the composite guess of word w over the unsolved games, from the
\* partition of each game's candidates
composite_guess(games, w) ==
    LET boards == Unsolved(games)
        k == Len(boards)
        singles == [j \in 1..k |->
                       partition_guess(games[boards[j]].potential_solns, w)]
        largest_sizes == [j \in 1..k |-> singles[j].size_of_largest_bucket]
    IN  [word |-> w,
         is_potential_soln |-> \E j \in 1..k : singles[j].is_potential_soln,
         pct_left |->
            [num |-> ProductOver(k, largest_sizes),
             den |-> ProductOver(k, [j \in 1..k |->
                        Len(games[boards[j]].potential_solns.words)])],
         min |-> MinOf(SeqRange(largest_sizes)),
         sum |-> SumSeq(k, largest_sizes),
         max |-> MaxOf(SeqRange(largest_sizes)),
         num_buckets |-> SumSeq(k, [j \in 1..k |-> singles[j].number_of_buckets])]

\* C14: SimulSolver.get_best_guess returns a guess; when some unsolved board
\* has exactly one candidate its word is the candidate of the first such
\* board, and otherwise it is a word of A whose composite guess no other
\* word of A improves upon.
C14_SimulBestGuess ==
    sn_best # NoGuess =>
        LET games == simul_game.games
            ones == {b \in 1..Len(games) :
                        /\ ~games[b].is_solved
                        /\ Len(games[b].potential_solns.words) = 1}
        IN  /\ ~IsRaised(sn_best)
            /\ ones # {} =>
                  sn_best.word = games[MinOf(ones)].potential_solns.words[1]
            /\ ones = {} =>
                  /\ sn_best.word \in SeqRange(all_words.words)
                  /\ \A n \in 1..Len(all_words.words) :
                        ~simul_improves_upon(
                            composite_guess(games, all_words.words[n]),
                            composite_guess(games, sn_best.word))

(***************************************************************************)
(* Decision trees (tree.py).  A GuessNode is [word, children] and a        *)
(* ScoreNode [score, children]; children holds the nodes in the order in   *)
(* which add appended them.                                                *)
(***************************************************************************)
\* GuessNode.__init__ and ScoreNode.__init__, with the children added later
GuessNode(word, children) == [word |-> word, children |-> children]
ScoreNode(score, children) == [score |-> score, children |-> children]

RECURSIVE score_node_count(_)
RECURSIVE guess_node_count(_)
RECURSIVE score_node_guess_count(_)
RECURSIVE guess_node_guess_count(_)
RECURSIVE score_node_display(_, _)
RECURSIVE guess_node_display(_, _)

\* ScoreNode.count with the childless node counted as nothing
score_node_count_leaf_is_zero(self) ==
    IF Len(self.children) > 0
    THEN SumSeq(Len(self.children),
                [i \in 1..Len(self.children) |-> guess_node_count(self.children[i])])
    ELSE 0

\* ScoreNode.count
score_node_count(self) ==
    IF Len(self.children) > 0
    THEN SumSeq(Len(self.children),
                [i \in 1..Len(self.children) |-> guess_node_count(self.children[i])])
    ELSE 1

\* GuessNode.count
guess_node_count(self) ==
    SumSeq(Len(self.children),
           [i \in 1..Len(self.children) |-> score_node_count(self.children[i])])

\* ScoreNode.guess_count
score_node_guess_count(self) ==
    SumSeq(Len(self.children),
           [i \in 1..Len(self.children) |-> guess_node_guess_count(self.children[i])])

\* GuessNode.guess_count
guess_node_guess_count(self) ==
    guess_node_count(self)
        + SumSeq(Len(self.children),
                 [i \in 1..Len(self.children) |->
                     score_node_guess_count(self.children[i])])

RECURSIVE Concat(_, _)
\* the rows of the first n generators, one after the other
Concat(n, rows) == IF n = 0 THEN <<>> ELSE Concat(n - 1, rows) \o rows[n]

\* ScoreNode.display: a row is the sequence of the items that the commas of
\* the string separate
score_node_display(self, prefix) ==
    LET new_prefix == Append(prefix, self.score)
    IN  IF Len(self.children) > 0
        THEN Concat(Len(self.children),
                    [i \in 1..Len(self.children) |->
                        guess_node_display(self.children[i], new_prefix)])
        ELSE <<new_prefix>>

\* GuessNode.display
guess_node_display(self, prefix) ==
    LET new_prefix == IF prefix = <<>> THEN <<self.word>>
                      ELSE Append(prefix, self.word)
    IN  Concat(Len(self.children),
               [i \in 1..Len(self.children) |->
                   score_node_display(self.children[i], new_prefix)])

(***************************************************************************)
(* The guesses of the EntropySolver that the tree builder sorts.  The      *)
(* entropy of a histogram of n candidates with bucket sizes c is           *)
(* log2(n) - log2(W)/n with W the product of c^c, plus 1/n for a potential *)
(* solution.  It is kept exactly, as (n, W, bonus).  Two entropies of the  *)
(* same n that differ, differ by at least log2(1 + 1/(2W))/n, far more     *)
(* than the tolerance of isclose at the sizes of the model, and two that   *)
(* are equal are computed to within rounding: isclose is equality.         *)
(***************************************************************************)
RECURSIVE Pow(_, _)
Pow(b, e) == IF e = 0 THEN 1 ELSE b * Pow(b, e - 1)

RECURSIVE ProductOfPowers(_, _)
\* the product of c^c over the counts c of the keys in S
ProductOfPowers(S, histogram) ==
    IF S = {} THEN 1
    ELSE LET k == CHOOSE x \in S : TRUE
         IN  Pow(histogram[k], histogram[k]) * ProductOfPowers(S \ {k}, histogram)

\* EntropyGuess.from_histogram
entropy_from_histogram(word, is_potential_soln, histogram) ==
    LET counts == {k \in DOMAIN histogram : histogram[k] > 0}
        num_buckets == Cardinality(counts)
        num_potential_solns == SumOver(counts, histogram)
    IN  [word |-> word,
         is_potential_soln |-> is_potential_soln,
         entropy |-> [n |-> num_potential_solns,
                      weight |-> ProductOfPowers(counts, histogram),
                      bonus |-> IF is_potential_soln THEN 1 ELSE 0],
         is_perfect_partition |-> num_buckets = num_potential_solns]

\* a.entropy > b.entropy for two entropies of the same n
entropy_greater(a, b) == Pow(2, a.bonus) * b.weight > Pow(2, b.bonus) * a.weight

\* isclose(a.entropy, b.entropy, abs_tol=1e-9) for two entropies of the same n
entropy_isclose(a, b) == Pow(2, a.bonus) * b.weight = Pow(2, b.bonus) * a.weight

\* EntropyGuess.improves_upon with the larger entropy second
exact_improves_upon_smaller_entropy(self, other) ==
    IF ~entropy_isclose(self.entropy, other.entropy)
    THEN entropy_greater(other.entropy, self.entropy)
    ELSE IF self.is_potential_soln # other.is_potential_soln
    THEN self.is_potential_soln
    ELSE WordLess(self.word, other.word)

\* EntropyGuess.improves_upon (and __lt__) on guesses with exact entropies
exact_improves_upon(self, other) ==
    IF ~entropy_isclose(self.entropy, other.entropy)
    THEN entropy_greater(self.entropy, other.entropy)
    ELSE IF self.is_potential_soln # other.is_potential_soln
    THEN self.is_potential_soln
    ELSE WordLess(self.word, other.word)

\* EntropySolver._build_guess applied to what stream yields
entropy_guesses_of(yielded) ==
    [n \in 1..Len(yielded) |->
        entropy_from_histogram(yielded[n].word, yielded[n].is_potential_soln,
                               yielded[n].histogram)]

\* EntropySolver.all_guesses
entropy_all_guesses(matrix, words, potential_solns) ==
    entropy_guesses_of(streamed(matrix, words, potential_solns))

RECURSIVE sorted_set(_)
\* the least guess first, then the others sorted
sorted_from(least, S) == <<least>> \o sorted_set(S \ {least})

\* sorted(...) of a set of guesses of different words
sorted_set(S) ==
    IF S = {} THEN <<>>
    ELSE sorted_from(CHOOSE g \in S : \A h \in S \ {g} : exact_improves_upon(g, h), S)

\* sorted(guesses)
sorted(guesses) == sorted_set(SeqRange(guesses))

(***************************************************************************)
(* TreeBuilder (tree.py): the module builds its models with lazy_eval off, *)
(* so every column of the score matrix is computed, and find_best_tree     *)
(* streams the all_words of the module.                                    *)
(***************************************************************************)
\* TreeBuilder.permutation_limit, the default
permutation_limit == 8

\* tree_size before the first candidate tree
tree_size == 1000000000

\* BEAR, DEAR, FEAR, GEAR, HEAR, NEAR: words that tell little of each other
TreeCommonPool ==
    << <<1, 4, 0, 17>>, <<3, 4, 0, 17>>, <<5, 4, 0, 17>>, <<6, 4, 0, 17>>,
       <<7, 4, 0, 17>>, <<13, 4, 0, 17>> >>

\* BRED, YEAR, WEAR
TreeExtraPool == << <<1, 17, 4, 3>>, <<24, 4, 0, 17>>, <<22, 4, 0, 17>> >>

\* the dictionary of the module: dictionary.words
tree_common_words == WordSeries({TreeCommonPool[i] : i \in 1..NumTreeCommonWords})
tree_all_words ==
    WordSeries(SeqRange(tree_common_words.words)
                   \cup {TreeExtraPool[i] : i \in 1..NumTreeExtraWords})

\* the scorer of the module
tree_scorer == word_length(tree_all_words)

\* the score matrix of create_models(..., lazy_eval=False)
tree_matrix ==
    precompute(ScoreMatrixInit(tree_scorer, tree_all_words, tree_common_words),
               tree_common_words)

\* N_GUESSES with no regard to the depth
n_guesses_at_any_depth(limit, depth) == Max(1, limit)

\* N_GUESSES = max(1, self.permutation_limit - 3 * depth)
n_guesses(limit, depth) == Max(1, limit - 3 * depth)

RECURSIVE find_best_tree(_, _, _, _)

\* score_node.add(soln0).add(WIN_SCORE)
one_left(score, inner_solns, WIN_SCORE) ==
    ScoreNode(score,
              <<GuessNode(inner_solns.words[1], <<ScoreNode(WIN_SCORE, <<>>)>>)>>)

\* the two chains added under the score node when two candidates are left
two_left(score, inner_solns, WIN_SCORE) ==
    LET soln0 == inner_solns.words[1]
        soln1 == inner_solns.words[2]
        score1 == score_word(tree_scorer, soln1, soln0)
    IN  ScoreNode(score,
                  <<GuessNode(soln0, <<ScoreNode(WIN_SCORE, <<>>)>>),
                    GuessNode(soln0,
                              <<ScoreNode(score1,
                                          <<GuessNode(soln1,
                                                      <<ScoreNode(WIN_SCORE, <<>>)>>)>>)>>)>>)

\* the node of one candidate under a guess that perfectly partitions
partitioned_node(soln, score, WIN_SCORE) ==
    IF score # WIN_SCORE
    THEN ScoreNode(score, <<GuessNode(soln, <<ScoreNode(WIN_SCORE, <<>>)>>)>>)
    ELSE ScoreNode(score, <<>>)

\* the subtree under a guess that perfectly partitions the candidates
perfect_partition(score, inner_solns, word, WIN_SCORE) ==
    ScoreNode(score,
              <<GuessNode(word,
                          [i \in 1..Len(inner_solns.words) |->
                              partitioned_node(inner_solns.words[i],
                                               score_word(tree_scorer, inner_solns.words[i], word),
                                               WIN_SCORE)])>>)

\* if guess_count < tree_size: tree_size = guess_count; best_node = tmp_node
keep_smaller(best, tmp_node, guess_count) ==
    IF guess_count < best.tree_size
    THEN [tree_size |-> guess_count, best_node |-> tmp_node]
    ELSE best

\* tmp_node after find_best_tree(inner_solns, tmp_node, depth + 1)
tried(limit, inner_solns, word, depth) ==
    GuessNode(word, find_best_tree(limit, inner_solns, word, depth + 1))

\* one candidate tree is built and compared with the best so far
try_guess(best, tmp_node) ==
    keep_smaller(best, tmp_node, guess_node_guess_count(tmp_node))

RECURSIVE best_tree(_, _, _, _, _)
\* the loop over best_guesses, its first k turns
best_tree(limit, inner_solns, depth, best_guesses, k) ==
    IF k = 0 THEN [tree_size |-> tree_size, best_node |-> NoGuess]
    ELSE try_guess(best_tree(limit, inner_solns, depth, best_guesses, k - 1),
                   tried(limit, inner_solns, best_guesses[k].word, depth))

\* guess_node = score_node.add(best_node.word); its children are best_node's
adopt(score, best_node) ==
    ScoreNode(score, <<GuessNode(best_node.word, best_node.children)>>)

\* three candidates or more: the guesses are sorted and the best taken
many_left(limit, score, inner_solns, depth, best_guesses, WIN_SCORE) ==
    IF best_guesses[1].is_perfect_partition
    THEN perfect_partition(score, inner_solns, best_guesses[1].word, WIN_SCORE)
    ELSE adopt(score, best_tree(limit, inner_solns, depth, best_guesses,
                                Len(best_guesses)).best_node)

\* sorted(guesses)[:N_GUESSES]
first_guesses(sorted_guesses, N_GUESSES) ==
    SubSeq(sorted_guesses, 1, IF N_GUESSES < Len(sorted_guesses)
                              THEN N_GUESSES ELSE Len(sorted_guesses))

\* one turn of the loop over solns_by_score.items(): the score node added
\* to parent, with what the turn puts under it
score_subtree(limit, score, inner_solns, depth, WIN_SCORE, N_GUESSES) ==
    IF score = WIN_SCORE THEN ScoreNode(score, <<>>)
    ELSE IF Len(inner_solns.words) = 1 THEN one_left(score, inner_solns, WIN_SCORE)
    ELSE IF Len(inner_solns.words) = 2 THEN two_left(score, inner_solns, WIN_SCORE)
    ELSE many_left(limit, score, inner_solns, depth,
                   first_guesses(sorted(entropy_all_guesses(tree_matrix, tree_all_words,
                                                            inner_solns)),
                                 N_GUESSES),
                   WIN_SCORE)

RECURSIVE SortInts(_)
\* the keys of the dict in the order of np.unique: ascending
SortInts(S) == IF S = {} THEN <<>> ELSE <<MinOf(S)>> \o SortInts(S \ {MinOf(S)})

\* the children of parent after the loop
subtrees(limit, solns_by_score, keys, depth, WIN_SCORE, N_GUESSES) ==
    [k \in 1..Len(keys) |->
        score_subtree(limit, keys[k], solns_by_score[keys[k]], depth,
                      WIN_SCORE, N_GUESSES)]

\* TreeBuilder.find_best_tree: the children it gives parent, a GuessNode of
\* parent_word without children
find_best_tree(limit, potential_solns, parent_word, depth) ==
    subtrees(limit,
             get_solns_by_score(potential_solns, parent_word),
             SortInts(DOMAIN get_solns_by_score(potential_solns, parent_word)),
             depth,
             perfect_score(tree_scorer),
             n_guesses(limit, depth))

\* TreeBuilder.build
build(limit, potential_solns, opening_word) ==
    GuessNode(opening_word, find_best_tree(limit, potential_solns, opening_word, 0))

(***************************************************************************)
(* Specification of the tree builder: build is called once, on a series    *)
(* cut out of the common words and an opening word, by a builder with the  *)
(* default permutation_limit or with that of the tests.                    *)
(***************************************************************************)
\* the permutation limits: the default and that of test_tree.py
PermutationLimits == {permutation_limit, 2}

InitTree ==
    /\ score_matrix = tree_matrix
    /\ IdleTree /\ IdleNodes /\ IdleBench /\ IdleCalls /\ IdleDepth /\ IdleLate
    /\ IdleScorer /\ IdlePartition /\ IdleOrder /\ IdleStream /\ IdleSolver
    /\ IdleGame /\ IdleEngine /\ IdleSimul

\* root = TreeBuilder(scorer, histogram_builder, solver, limit).build(C, g)
Build ==
    /\ tr_root = NoGuess
    /\ \E potential_solns \in SubSeries(tree_common_words),
          opening_word \in SeqRange(tree_all_words.words) \cup {OutsideWord},
          limit \in PermutationLimits :
          /\ tr_solns' = potential_solns
          /\ tr_opening' = opening_word
          /\ tr_limit' = limit
          /\ tr_root' = build(limit, potential_solns, opening_word)

NextTree ==
    Build
        /\ UNCHANGED <<scorerVars, partitionVars, orderVars, matrixVars,
                       streamVars, solverVars, gameVars, engineVars,
                       simulGameVars, simulEngineVars, nodeVars, benchVars,
                       callVars, depthVars, lateVars>>

SpecTree == InitTree /\ [][NextTree]_vars

\* the paths from the root to a childless score node that carries the
\* perfect score, as display gives them
win_rows(root) ==
    LET rows == guess_node_display(root, <<>>)
    IN  {i \in 1..Len(rows) : rows[i][Len(rows[i])] = perfect_score(tree_scorer)}

\* C15: the tree of build(C, g) has for every c of C exactly one path from
\* the root to a WIN leaf whose last guess is c; on it every score is
\* score_word(c, the guess before the score), and only the last score is
\* perfect.
C15_TreeCoversEverySolution ==
    tr_root # NoGuess =>
        LET rows == guess_node_display(tr_root, <<>>)
            ends_with(i, c) == rows[i][Len(rows[i]) - 1] = c
            scored_as(i, c) ==
                \A j \in 1..(Len(rows[i]) \div 2) :
                    /\ rows[i][2 * j] = score_word(tree_scorer, c, rows[i][2 * j - 1])
                    /\ is_perfect_score(tree_scorer, rows[i][2 * j])
                           <=> 2 * j = Len(rows[i])
        IN  \A c \in SeqRange(tr_solns.words) :
                /\ Cardinality({i \in win_rows(tr_root) : ends_with(i, c)}) = 1
                /\ \A i \in win_rows(tr_root) : ends_with(i, c) => scored_as(i, c)

(***************************************************************************)
(* Specification of the nodes: a tree is put together by calls of add on   *)
(* its nodes, as the tests do, or it is the tree that build returns.  A    *)
(* node is named by its path: the positions among the children on the way  *)
(* from the root to it.                                                    *)
(***************************************************************************)
RECURSIVE NodePaths(_)
\* the paths of the nodes of a tree, the root (the empty path) included
NodePaths(node) ==
    {<<>>} \cup UNION {{<<i>> \o q : q \in NodePaths(node.children[i])} :
                          i \in 1..Len(node.children)}

RECURSIVE NodeAt(_, _)
NodeAt(node, path) ==
    IF path = <<>> THEN node
    ELSE NodeAt(node.children[Head(path)], Tail(path))

RECURSIVE add_at(_, _, _)
\* the tree after the node at path appended child to its children
add_at(node, path, child) ==
    IF path = <<>> THEN [node EXCEPT !.children = Append(@, child)]
    ELSE [node EXCEPT !.children[Head(path)] = add_at(@, Tail(path), child)]

\* GuessNode.add, called on the guess node at path
guess_node_add(root, path, score) == add_at(root, path, ScoreNode(score, <<>>))

\* ScoreNode.add, called on the score node at path
score_node_add(root, path, guess) == add_at(root, path, GuessNode(guess, <<>>))

\* ROOT0, NODE1, NODE2, NODE3 of test_tree.py, a digit d as ord(d) - ord("A")
ROOT0 == <<17, 14, 14, 19, 0 - 17>>
NODE1 == <<13, 14, 3, 4, 0 - 16>>
NODE2 == <<13, 14, 3, 4, 0 - 15>>
NODE3 == <<13, 14, 3, 4, 0 - 14>>

\* the four chains of adds of test_add_score_node
test_add_score_node ==
    LET sut == GuessNode(ROOT0, <<>>)
        first == guess_node_add(sut, <<>>, 242)
        second == guess_node_add(
                      score_node_add(guess_node_add(first, <<>>, 101), <<2>>, NODE1),
                      <<2, 1>>, 242)
        third == guess_node_add(
                     score_node_add(guess_node_add(second, <<>>, 205), <<3>>, NODE2),
                     <<3, 1>>, 242)
        fourth == guess_node_add(
                      score_node_add(
                          guess_node_add(
                              score_node_add(guess_node_add(third, <<>>, 205),
                                             <<4>>, NODE2),
                              <<4, 1>>, 100),
                          <<4, 1, 1>>, NODE3),
                      <<4, 1, 1, 1>>, 242)
    IN  fourth

\* the scores and the words that add is called with
NodeScores == {perfect_score(tree_scorer), 0}
NodeWords == {tree_all_words.words[1]}

InitNodes ==
    /\ nd_root \in {GuessNode(tree_all_words.words[1], <<>>), GuessNode(ROOT0, <<>>)}
    /\ score_matrix = tree_matrix
    /\ IdleTree /\ IdleBench /\ IdleCalls /\ IdleDepth /\ IdleLate
    /\ IdleScorer /\ IdlePartition /\ IdleOrder /\ IdleStream /\ IdleSolver
    /\ IdleGame /\ IdleEngine /\ IdleSimul

\* guess_node.add(score) on a guess node of the tree
GuessNodeAdd ==
    /\ tr_root = NoGuess
    /\ nd_root.word # ROOT0
    /\ Cardinality(NodePaths(nd_root)) <= MaxNodes
    /\ \E path \in NodePaths(nd_root), score \in NodeScores :
          /\ Len(path) % 2 = 0
          /\ nd_root' = guess_node_add(nd_root, path, score)
    /\ UNCHANGED treeVars

\* score_node.add(guess) on a score node of the tree
ScoreNodeAdd ==
    /\ tr_root = NoGuess
    /\ Cardinality(NodePaths(nd_root)) <= MaxNodes
    /\ \E path \in NodePaths(nd_root), guess \in NodeWords :
          /\ Len(path) % 2 = 1
          /\ nd_root' = score_node_add(nd_root, path, guess)
    /\ UNCHANGED treeVars

\* the adds of test_add_score_node, all of them
TestAddScoreNode ==
    /\ nd_root = GuessNode(ROOT0, <<>>)
    /\ nd_root' = test_add_score_node
    /\ UNCHANGED treeVars

\* a builder builds a tree; no add is called by hand
NodesBuild ==
    /\ nd_root = GuessNode(tree_all_words.words[1], <<>>)
    /\ Build
    /\ UNCHANGED nodeVars

NextNodes ==
    (GuessNodeAdd \/ ScoreNodeAdd \/ TestAddScoreNode \/ NodesBuild)
        /\ UNCHANGED <<scorerVars, partitionVars, orderVars, matrixVars,
                       streamVars, solverVars, gameVars, engineVars,
                       simulGameVars, simulEngineVars, benchVars,
                       callVars, depthVars, lateVars>>

SpecNodes == InitNodes /\ [][NextNodes]_vars

\* the paths from the root to the score nodes without children
leaf_paths(root) ==
    {path \in NodePaths(root) :
        Len(path) % 2 = 1 /\ Len(NodeAt(root, path).children) = 0}

\* those that carry the perfect score of the words of the tree: the WIN leaves
win_leaf_paths(root) ==
    {path \in leaf_paths(root) :
        is_perfect_score(Len(root.word), NodeAt(root, path).score)}

\* the guess nodes on a path to a score node: every other node, from the root
guesses_on(path) == (Len(path) + 1) \div 2

\* the sum of the guesses on the paths of a set
guesses_on_all(paths) == SumOver(paths, [path \in paths |-> guesses_on(path)])

\* C16 as it is worded: count() is the number of paths from the root to a WIN
\* leaf and guess_count() the sum of the guesses on those paths.
C16_CountsOfWinPaths ==
    nd_root # NoGuess =>
        /\ guess_node_count(nd_root) = Cardinality(win_leaf_paths(nd_root))
        /\ guess_node_guess_count(nd_root) = guesses_on_all(win_leaf_paths(nd_root))

\* C16, amended: count() is the number of paths from the root to a score
\* node without children, whatever its score, and guess_count() is the sum
\* of the guesses on those paths; the test tree gives 4 and 8; in a tree that
\* build returns every such node is a WIN leaf and count() is |C|.
C16_CountsOfLeafPaths ==
    /\ nd_root # NoGuess =>
        /\ guess_node_count(nd_root) = Cardinality(leaf_paths(nd_root))
        /\ guess_node_guess_count(nd_root) = guesses_on_all(leaf_paths(nd_root))
        /\ nd_root = test_add_score_node =>
              /\ Len(nd_root.children) = 4
              /\ guess_node_count(nd_root) = 4
              /\ guess_node_guess_count(nd_root) = 8
    /\ tr_root # NoGuess =>
        /\ leaf_paths(tr_root) = win_leaf_paths(tr_root)
        /\ guess_node_count(tr_root) = Cardinality(win_leaf_paths(tr_root))
        /\ guess_node_count(tr_root) = Len(tr_solns.words)
        /\ guess_node_guess_count(tr_root) = guesses_on_all(win_leaf_paths(tr_root))

\* a tree put together by hand with a WIN leaf under the root, a deeper WIN
\* leaf and a childless score node that is no WIN leaf
C16_Witness ==
    /\ nd_root # NoGuess
    /\ \E path \in win_leaf_paths(nd_root) : Len(path) = 1
    /\ \E path \in win_leaf_paths(nd_root) : Len(path) = 3
    /\ leaf_paths(nd_root) # win_leaf_paths(nd_root)

(***************************************************************************)
(* Benchmarks (benchmarking.py).  A Benchmark is [guesses, histogram,      *)
(* scoreboards], a scoreboard the sequence of its rows, a file the         *)
(* sequence of its lines and a line the sequence of the words between its  *)
(* commas.                                                                 *)
(***************************************************************************)
\* str < str: the first difference decides, a proper prefix is smaller
StrLess(a, b) ==
    \/ /\ Len(a) < Len(b)
       /\ \A j \in 1..Len(a) : a[j] = b[j]
    \/ \E i \in 1..Len(a) :
          /\ i <= Len(b)
          /\ \A j \in 1..(i - 1) : a[j] = b[j]
          /\ a[i] < b[i]

RECURSIVE sorted_order(_, _)
\* sorted(items, key=...) is stable: the places of the first n items in
\* the order of their keys, an item after those before it with an equal key
sorted_order(keys, n) ==
    IF n = 0 THEN <<>>
    ELSE LET before == sorted_order(keys, n - 1)
             ahead == Cardinality({j \in 1..(n - 1) : ~StrLess(keys[n], keys[j])})
         IN  SubSeq(before, 1, ahead) \o <<n>> \o SubSeq(before, ahead + 1, n - 1)

\* sorted(items, key=...), keys[k] the key of items[k]
sorted_by(items, keys) ==
    LET order == sorted_order(keys, Len(items))
    IN  [k \in 1..Len(items) |-> items[order[k]]]

\* WordSeries.__init__ from a list of strings: sorted(words), duplicates kept
WordSeriesOfList(strings) ==
    LET sorted_words == sorted_by(strings, strings)
    IN  [words |-> sorted_words,
         index |-> [i \in 1..Len(sorted_words) |-> i - 1]]

RECURSIVE join(_, _)
\* sep.join(strings), a string as the sequence of its characters
join(strings, sep) ==
    IF Len(strings) = 0 THEN <<>>
    ELSE IF Len(strings) = 1 THEN strings[1]
    ELSE join(SubSeq(strings, 1, Len(strings) - 1), sep)
             \o sep \o strings[Len(strings)]

\* the characters of a ternary score: ord("0") + digit; and ord("-")
score_chars(score) == [k \in 1..Len(score) |-> 48 + score[k]]
dash == <<45>>

\* create_key(n): the scores of the first n rows joined by "-"
score_path(scoreboard, n) ==
    join([i \in 1..(IF n < Len(scoreboard) THEN n ELSE Len(scoreboard)) |->
             score_chars(scoreboard[i].score)],
         dash)

RECURSIVE compare_follow_ups(_, _, _, _)
\* the loop over the scoreboards of a group, from the k-th on: rows[i] is
\* read of each and its guess compared with that of the first scoreboard
compare_follow_ups(grp, k, i, first_follow_up_guess) ==
    IF k > Len(grp) THEN "continue"
    ELSE IF Len(grp[k]) <= i THEN "IndexError"
    ELSE IF grp[k][i + 1].guess # first_follow_up_guess
    THEN "InvalidWordleBotFileError"
    ELSE compare_follow_ups(grp, k + 1, i, first_follow_up_guess)

\* the body of the loop over the groups, for one group
check_group(grp, i) ==
    IF Len(grp) = 1 THEN "continue"
    ELSE IF \A k \in 1..Len(grp) : ~(Len(grp[k]) > i) THEN "StopIteration"
    ELSE LET first == CHOOSE k \in 1..Len(grp) :
                          /\ Len(grp[k]) > i
                          /\ \A j \in 1..(k - 1) : ~(Len(grp[j]) > i)
         IN  compare_follow_ups(grp, 1, i, grp[first][i + 1].guess)

\* groupby(sorted_boards, key=create_key(i)): the group that starts at place
\* p, the scoreboards from p on whose key is that of the p-th
group_from(sorted_boards, p, i) ==
    LET same(q) == score_path(sorted_boards[q], i) = score_path(sorted_boards[p], i)
        last == CHOOSE q \in p..Len(sorted_boards) :
                    /\ \A r \in p..q : same(r)
                    /\ q = Len(sorted_boards) \/ ~same(q + 1)
    IN  SubSeq(sorted_boards, p, last)

RECURSIVE check_groups(_, _, _)
\* the loop over the groups of round i, from the group that starts at p
check_groups(sorted_boards, p, i) ==
    IF p > Len(sorted_boards) THEN "continue"
    ELSE IF check_group(group_from(sorted_boards, p, i), i) # "continue"
    THEN check_group(group_from(sorted_boards, p, i), i)
    ELSE check_groups(sorted_boards, p + Len(group_from(sorted_boards, p, i)), i)

RECURSIVE check_rounds(_, _, _)
\* for i in range(1, worst_num_rounds + 1), from i on
check_rounds(sorted_boards, i, worst_num_rounds) ==
    IF i > worst_num_rounds THEN "returned"
    ELSE IF check_groups(sorted_boards, 1, i) # "continue"
    THEN check_groups(sorted_boards, 1, i)
    ELSE check_rounds(sorted_boards, i + 1, worst_num_rounds)

\* Benchmark.validate: "returned", or the name of the exception raised
validate(scoreboards) ==
    LET worst_num_rounds ==
            MaxOf({scoreboards[k][Len(scoreboards[k])].n : k \in 1..Len(scoreboards)})
        sorted_boards ==
            sorted_by(scoreboards,
                      [k \in 1..Len(scoreboards) |->
                          score_path(scoreboards[k], worst_num_rounds)])
    IN  check_rounds(sorted_boards, 1, worst_num_rounds)

\* Benchmark.to_csv: the lines written, one for each scoreboard in the order
\* of the solutions, the guesses of its rows between the commas
to_csv(self) ==
    LET ordered_scoreboards ==
            sorted_by(self.scoreboards,
                      [k \in 1..Len(self.scoreboards) |-> self.scoreboards[k][1].soln])
    IN  [k \in 1..Len(ordered_scoreboards) |->
            [r \in 1..Len(ordered_scoreboards[k]) |-> ordered_scoreboards[k][r].guess]]

\* histogram[n] += 1 on a defaultdict(int)
increment(histogram, n) ==
    [k \in DOMAIN histogram \cup {n} |->
        IF k = n THEN (IF n \in DOMAIN histogram THEN histogram[n] ELSE 0) + 1
        ELSE histogram[k]]

RECURSIVE read_rows(_, _, _, _, _)
\* the inner loop of read_csv over the first i guesses of a line: the rows
\* of the scoreboard and the candidates left
read_rows(scorer, guesses, soln, potential_solns, i) ==
    IF i = 0 THEN [rows |-> <<>>, solns |-> potential_solns]
    ELSE LET before == read_rows(scorer, guesses, soln, potential_solns, i - 1)
             guess == guesses[i]
             score == score_word(scorer, soln, guess)
             solns == get_solns_by_score(before.solns, guess)[score]
         IN  [rows |-> add_row(before.rows, i, soln, guess,
                               to_ternary(score, scorer), Len(solns.words)),
              solns |-> solns]

RECURSIVE read_lines(_, _, _, _)
\* the outer loop of read_csv over the first k lines
read_lines(scorer, all_lines, potential_solns, k) ==
    IF k = 0 THEN [histogram |-> <<>>, scoreboards |-> <<>>]
    ELSE LET before == read_lines(scorer, all_lines, potential_solns, k - 1)
             guesses == all_lines[k]
             n == Len(guesses)
             soln == guesses[n]
         IN  [histogram |-> increment(before.histogram, n),
              scoreboards |->
                  Append(before.scoreboards,
                         read_rows(scorer, guesses, soln, potential_solns, n).rows)]

\* Benchmark.read_csv: the Benchmark, or the exception that validate raised
read_csv(all_lines, should_validate) ==
    LET potential_solns ==
            WordSeriesOfList([k \in 1..Len(all_lines) |->
                                 all_lines[k][Len(all_lines[k])]])
        scorer == Len(all_lines[1][1])
        parsed == read_lines(scorer, all_lines, potential_solns, Len(all_lines))
        benchmark == [guesses |-> <<>>,
                      histogram |-> parsed.histogram,
                      scoreboards |-> parsed.scoreboards]
    IN  IF should_validate /\ validate(benchmark.scoreboards) # "returned"
        THEN Raised(validate(benchmark.scoreboards))
        ELSE benchmark

(***************************************************************************)
(* DeepMinimaxSolver (solver.py) and the solver create_models builds for a *)
(* depth (factory.py): a MinimaxSolver wrapped depth - 1 times.            *)
(***************************************************************************)
N_GUESSES == 50
N_BRANCHES == 10

\* MinimaxGuess.perfectly_partitions
perfectly_partitions(self) == self.size_of_largest_bucket = 1

\* MinimaxGuess.combine, guess >> other
combine(self, other) ==
    [word |-> self.word,
     is_potential_soln |-> self.is_potential_soln,
     number_of_buckets |-> other.number_of_buckets,
     size_of_largest_bucket |-> other.size_of_largest_bucket]

\* the n-th item put after the first ahead of the items before it
place(before, ahead, n) ==
    SubSeq(before, 1, ahead) \o <<n>> \o SubSeq(before, ahead + 1, n - 1)

\* the items in an order of their places
pick(items, order) == [k \in 1..Len(order) |-> items[order[k]]]

RECURSIVE minimax_sorted_order(_, _)
\* sorted(guesses) compares with <: a guess goes after the guesses before it
\* that it is not less than
minimax_sorted_order(guesses, n) ==
    IF n = 0 THEN <<>>
    ELSE place(minimax_sorted_order(guesses, n - 1),
               Cardinality({j \in 1..(n - 1) :
                               ~minimax_lt(guesses[n], guesses[j])}),
               n)

\* sorted(guesses) of minimax guesses
minimax_sorted(guesses) ==
    pick(guesses, minimax_sorted_order(guesses, Len(guesses)))

RECURSIVE largest_first_order(_, _)
\* sorted(..., key=lambda s: -len(solns_by_score[s])) is stable
largest_first_order(sizes, n) ==
    IF n = 0 THEN <<>>
    ELSE place(largest_first_order(sizes, n - 1),
               Cardinality({j \in 1..(n - 1) : sizes[j] >= sizes[n]}),
               n)

\* the sizes of the buckets in the order of the keys
bucket_sizes(solns_by_score, keys) ==
    [k \in 1..Len(keys) |-> Len(solns_by_score[keys[k]].words)]

\* worst_scores: the keys of the dict, the largest bucket first
worst_scores_of(solns_by_score, keys) ==
    pick(keys, largest_first_order(bucket_sizes(solns_by_score, keys), Len(keys)))

\* items[:n]
head(items, n) == SubSeq(items, 1, IF n < Len(items) THEN n ELSE Len(items))

\* the larger of the maximum so far and the next guess
max_of_two(worst, guess) == IF minimax_gt(guess, worst) THEN guess ELSE worst

\* the guess of the largest bucket in place of the worst
max_guess_of_largest_bucket(guesses) == guesses[1]

RECURSIVE max_guess(_)
\* max(best_deep_guesses): the first guess that no later guess is > than
max_guess(guesses) ==
    IF Len(guesses) = 1 THEN guesses[1]
    ELSE max_of_two(max_guess(SubSeq(guesses, 1, Len(guesses) - 1)),
                    guesses[Len(guesses)])

RECURSIVE solver_get_best_guess(_, _, _, _)

\* best_deep_guesses: the guess of the inner solver for each branch
best_deep_guesses_of(depth, matrix, words, solns_by_score, branches) ==
    [b \in 1..Len(branches) |->
        solver_get_best_guess(depth - 1, matrix, words, solns_by_score[branches[b]])]

\* worst_best_deep_guess for the buckets of a guess
worst_best_deep_guess(depth, matrix, words, solns_by_score) ==
    max_guess(best_deep_guesses_of(
                depth, matrix, words, solns_by_score,
                head(worst_scores_of(solns_by_score,
                                     SortInts(DOMAIN solns_by_score)),
                     N_BRANCHES)))

\* combined_guess = guess >> worst_best_deep_guess
combined_guess_of(depth, matrix, words, potential_solns, guess) ==
    combine(guess,
            worst_best_deep_guess(depth, matrix, words,
                                  get_solns_by_score(potential_solns, guess.word)))

RECURSIVE deep_loop(_, _, _, _, _, _, _)
\* the loop over best_guesses from the k-th guess on: a guess that perfectly
\* partitions is returned at once, otherwise the least combined guess is
deep_loop(depth, matrix, words, potential_solns, best_guesses, k, combined_guesses) ==
    IF k > Len(best_guesses) THEN min_guess(combined_guesses)
    ELSE IF perfectly_partitions(best_guesses[k])
    THEN [word |-> best_guesses[k].word,
          is_potential_soln |-> best_guesses[k].is_potential_soln,
          number_of_buckets |-> 0,
          size_of_largest_bucket |-> 0]
    ELSE deep_loop(depth, matrix, words, potential_solns, best_guesses, k + 1,
                   Append(combined_guesses,
                          combined_guess_of(depth, matrix, words, potential_solns,
                                            best_guesses[k])))

\* DeepMinimaxSolver.get_best_guess; the stream of all_guesses has computed
\* the columns of the candidates when the inner solver is called
deep_get_best_guess(depth, matrix, words, potential_solns) ==
    IF Len(potential_solns.words) <= 2
    THEN get_best_guess(matrix, words, potential_solns)
    ELSE deep_loop(depth, precompute(matrix, potential_solns), words,
                   potential_solns,
                   head(minimax_sorted(all_guesses(matrix, words, potential_solns)),
                        N_GUESSES),
                   1, <<>>)

\* get_best_guess of the solver create_models builds for a depth
solver_get_best_guess(depth, matrix, words, potential_solns) ==
    IF depth <= 1 THEN get_best_guess(matrix, words, potential_solns)
    ELSE deep_get_best_guess(depth, matrix, words, potential_solns)

\* create_models: the dictionary and the depth of the solver of an Engine
create_models(words, potential_solns, depth) ==
    [dictionary |-> [all_words |-> words, common_words |-> potential_solns],
     depth |-> depth]

(***************************************************************************)
(* Engine.run as Benchmarker.run_benchmark calls it: the whole run, to the *)
(* Game it returns or the exception it raises.                             *)
(***************************************************************************)
RECURSIVE engine_loop(_, _, _, _, _, _)

\* guess = game.user_guess(i) or solver.get_best_guess(...).word
engine_next_guess(engine, updated, available_answers, matrix, i) ==
    IF Len(user_guess(updated, i)) > 0 THEN user_guess(updated, i)
    ELSE solver_get_best_guess(engine.depth, matrix, engine.dictionary.all_words,
                               available_answers).word

\* the score matrix after that statement
engine_next_matrix(updated, available_answers, matrix, i) ==
    IF Len(user_guess(updated, i)) > 0 \/ Len(available_answers.words) <= 2
    THEN matrix
    ELSE precompute(matrix, available_answers)

\* the turn after game.update
engine_after_update(engine, updated, available_answers, matrix, i) ==
    IF updated.is_solved THEN updated
    ELSE engine_loop(engine, updated, available_answers,
                     engine_next_guess(engine, updated, available_answers, matrix, i),
                     engine_next_matrix(updated, available_answers, matrix, i),
                     i + 1)

\* the turn from histogram[score] on
engine_turn(engine, self, histogram, score, guess, matrix, i) ==
    IF score \notin DOMAIN histogram THEN Raised("KeyError")
    ELSE engine_after_update(engine,
                             update(self, i, guess, score, histogram[score]),
                             histogram[score], matrix, i)

\* the loop of Engine.run from turn i on
engine_loop(engine, self, available_answers, guess, matrix, i) ==
    IF i > MAX_ITERS THEN Raised("FailedToFindASolutionError")
    ELSE engine_turn(engine, self,
                     get_solns_by_score(available_answers, guess),
                     score_word(size, self.soln, guess),
                     guess, matrix, i)

\* Engine.run
engine_run(engine, solution, user_guesses) ==
    LET new_game == GameInit(engine.dictionary.common_words, solution, user_guesses)
        first == user_guess(new_game, 0)
    IN  engine_loop(engine, new_game, engine.dictionary.common_words,
                    IF Len(first) > 0 THEN first
                    ELSE seed(word_length(engine.dictionary.all_words)),
                    ScoreMatrixInit(size, engine.dictionary.all_words,
                                    engine.dictionary.common_words),
                    1)

\* Game.rounds
rounds(self) ==
    IF Len(self.scoreboard) > 0 THEN self.scoreboard[Len(self.scoreboard)].n ELSE 0

\* solved_games.append(game); histogram[game.rounds] += 1, unless the run of
\* the game raised
collect_game(before, played) ==
    IF IsRaised(played) THEN played
    ELSE [histogram |-> increment(before.histogram, rounds(played)),
          solved_games |-> Append(before.solved_games, played)]

\* one turn of the loop over the games, unless a run before it raised
collect_next(engine, before, solution, user_guesses) ==
    IF IsRaised(before) THEN before
    ELSE collect_game(before, engine_run(engine, solution, user_guesses))

RECURSIVE collect_games(_, _, _)
\* the loop over executor.map(run, common_words): its first k turns
collect_games(engine, user_guesses, k) ==
    IF k = 0 THEN [histogram |-> <<>>, solved_games |-> <<>>]
    ELSE collect_next(engine, collect_games(engine, user_guesses, k - 1),
                      engine.dictionary.common_words.words[k], user_guesses)

\* the Benchmark of the games collected
benchmark_of(user_guesses, collected) ==
    IF IsRaised(collected) THEN collected
    ELSE [guesses |-> user_guesses,
          histogram |-> collected.histogram,
          scoreboards |-> [k \in 1..Len(collected.solved_games) |->
                              collected.solved_games[k].scoreboard]]

\* Benchmarker.run_benchmark: the Benchmark, or the exception a run raised
run_benchmark(engine, user_guesses) ==
    benchmark_of(user_guesses,
                 collect_games(engine, user_guesses,
                               Len(engine.dictionary.common_words.words)))

(***************************************************************************)
(* Specification of the benchmark: a Benchmark is made by hand from        *)
(* scoreboards that each end at their first perfect score, as the tests    *)
(* make one, or run_benchmark is called; then validate, to_csv and         *)
(* read_csv of the file written are called.                                *)
(***************************************************************************)
\* the words and the scores of the rows made by hand
BenchWords == {common_words.words[1], common_words.words[2]}
BenchScores == {[k \in 1..size |-> 0], [k \in 1..size |-> IF k = size THEN 1 ELSE 0]}
PerfectTernary == [k \in 1..size |-> 2]

\* the scoreboards of n rows that end at their first perfect score: the last
\* guess is the solution
BenchBoards(n) ==
    {[r \in 1..n |-> [n |-> r,
                      soln |-> guesses[n],
                      guess |-> guesses[r],
                      score |-> IF r = n THEN PerfectTernary ELSE scores[r],
                      num_left |-> 1]] :
        guesses \in [1..n -> BenchWords], scores \in [1..n -> BenchScores]}

AllBenchBoards == UNION {BenchBoards(n) : n \in 1..MaxBenchRows}

RECURSIVE histogram_of(_, _)
\* the histogram of the rounds of the first k scoreboards
histogram_of(scoreboards, k) ==
    IF k = 0 THEN <<>>
    ELSE increment(histogram_of(scoreboards, k - 1), Len(scoreboards[k]))

\* Benchmark(guesses, histogram, scoreboards) of scoreboards made by hand
MadeBenchmarks ==
    {[guesses |-> <<>>,
      histogram |-> histogram_of(scoreboards, Len(scoreboards)),
      scoreboards |-> scoreboards] :
        scoreboards \in SeqsUpTo(AllBenchBoards, MaxBenchBoards) \ {<<>>}}

InitBenchmark ==
    /\ \/ bm_origin = "none" /\ bm_benchmark = NoBenchmark
       \/ bm_origin = "made" /\ bm_benchmark \in MadeBenchmarks
    /\ bm_valid = "none" /\ bm_file = NoFile /\ bm_read = NoBenchmark
    /\ score_matrix = ScoreMatrixInit(size, all_words, common_words)
    /\ IdleTree /\ IdleNodes /\ IdleCalls /\ IdleDepth /\ IdleLate
    /\ IdleScorer /\ IdlePartition /\ IdleOrder /\ IdleStream /\ IdleSolver
    /\ IdleGame /\ IdleEngine /\ IdleSimul

\* benchmarker.run_benchmark(user_guesses)
RunBenchmark ==
    /\ bm_origin = "none"
    /\ \E user_guesses \in UserGuessLists :
          bm_benchmark' = run_benchmark(create_models(all_words, common_words, 1),
                                        user_guesses)
    /\ bm_origin' = "run"
    /\ UNCHANGED <<bm_valid, bm_file, bm_read>>

\* benchmark.validate()
Validate ==
    /\ bm_origin # "none" /\ ~IsRaised(bm_benchmark)
    /\ bm_valid = "none"
    /\ bm_valid' = validate(bm_benchmark.scoreboards)
    /\ UNCHANGED <<bm_origin, bm_benchmark, bm_file, bm_read>>

\* benchmark.to_csv(path)
ToCsv ==
    /\ bm_origin # "none" /\ ~IsRaised(bm_benchmark)
    /\ bm_file = NoFile
    /\ bm_file' = to_csv(bm_benchmark)
    /\ UNCHANGED <<bm_origin, bm_benchmark, bm_valid, bm_read>>

\* Benchmark.read_csv(path, validate) of the file written
ReadCsv ==
    /\ bm_file # NoFile
    /\ bm_read = NoBenchmark
    /\ \E should_validate \in BOOLEAN :
          bm_read' = read_csv(bm_file, should_validate)
    /\ UNCHANGED <<bm_origin, bm_benchmark, bm_valid, bm_file>>

NextBenchmark ==
    (RunBenchmark \/ Validate \/ ToCsv \/ ReadCsv)
        /\ UNCHANGED <<scorerVars, partitionVars, orderVars, matrixVars,
                       streamVars, solverVars, gameVars, engineVars,
                       simulGameVars, simulEngineVars, treeVars, nodeVars,
                       callVars, depthVars, lateVars>>

SpecBenchmark == InitBenchmark /\ [][NextBenchmark]_vars

\* two scoreboards have the same scores in rows 1..k, k >= 1, and different
\* guesses in row k + 1
diverge(scoreboards) ==
    \E a, b \in 1..Len(scoreboards) :
        \E k \in 1..Len(scoreboards[a]) :
            /\ Len(scoreboards[a]) > k /\ Len(scoreboards[b]) > k
            /\ \A r \in 1..k : scoreboards[a][r].score = scoreboards[b][r].score
            /\ scoreboards[a][k + 1].guess # scoreboards[b][k + 1].guess

\* every scoreboard ends at its first perfect score
end_at_first_perfect(scoreboards) ==
    \A a \in 1..Len(scoreboards) :
        \A r \in 1..Len(scoreboards[a]) :
            scoreboards[a][r].score = PerfectTernary <=> r = Len(scoreboards[a])

\* C17: on scoreboards that each end at their first perfect score,
\* validate() raises InvalidWordleBotFileError exactly when two of them
\* have the same scores in rows 1..k and different guesses in row k + 1, and
\* it returns without raising anything for every other list.
C17_ValidateRaisesIffDiverge ==
    (bm_valid # "none" /\ end_at_first_perfect(bm_benchmark.scoreboards)) =>
        /\ bm_valid = "InvalidWordleBotFileError" <=> diverge(bm_benchmark.scoreboards)
        /\ ~diverge(bm_benchmark.scoreboards) => bm_valid = "returned"

\* the rows of the scoreboard of a solution in a Benchmark
boards_of(benchmark, soln) ==
    {benchmark.scoreboards[k] : k \in {j \in 1..Len(benchmark.scoreboards) :
                                         benchmark.scoreboards[j][1].soln = soln}}

\* C18: run_benchmark solves every common word once and gives a Benchmark;
\* to_csv and read_csv of the file written give a Benchmark with the same
\* histogram of rounds and, for every solution, a scoreboard with the same
\* rows (n, soln, guess, score, num_left).
C18_CsvRoundTrip ==
    bm_origin = "run" =>
        /\ ~IsRaised(bm_benchmark)
        /\ Len(bm_benchmark.scoreboards) = Len(common_words.words)
        /\ bm_read # NoBenchmark =>
              /\ ~IsRaised(bm_read)
              /\ bm_read.histogram = bm_benchmark.histogram
              /\ \A soln \in SeqRange(common_words.words) :
                    /\ Cardinality(boards_of(bm_read, soln)) = 1
                    /\ boards_of(bm_read, soln) = boards_of(bm_benchmark, soln)

(***************************************************************************)
(* Specification of the calls of the solver: get_best_guess is called up   *)
(* to MaxCalls times on one HistogramBuilder, on all the common words, on  *)
(* the first three, the last three, all but the first and the last, or the *)
(* first two, and precompute is called in between; every call is kept with *)
(* the guess it returned.                                                  *)
(***************************************************************************)
CallSolns ==
    LET n == Len(common_words.words)
    IN  {common_words,
         getitem(common_words, [i \in 1..n |-> i <= 3]),
         getitem(common_words, [i \in 1..n |-> i > n - 3]),
         getitem(common_words, [i \in 1..n |-> i > 1 /\ i < n]),
         getitem(common_words, [i \in 1..n |-> i <= 2])}

InitCalls ==
    /\ score_matrix = ScoreMatrixInit(size, all_words, common_words)
    /\ dt_calls = <<>>
    /\ IdleTree /\ IdleNodes /\ IdleBench /\ IdleDepth /\ IdleLate
    /\ IdleScorer /\ IdlePartition /\ IdleOrder /\ IdleStream /\ IdleSolver
    /\ IdleGame /\ IdleEngine /\ IdleSimul

\* solver.get_best_guess(all_words, potential_solns), once more
CallGetBestGuess ==
    /\ Len(dt_calls) < MaxCalls
    /\ \E potential_solns \in CallSolns :
          /\ dt_calls' =
                Append(dt_calls,
                       [solns |-> potential_solns,
                        best |-> get_best_guess(score_matrix, all_words,
                                                potential_solns)])
          /\ score_matrix' = IF Len(potential_solns.words) <= 2
                             THEN score_matrix
                             ELSE precompute(score_matrix, potential_solns)

\* score_matrix.precompute(subset), or precompute() of every column
CallPrecompute ==
    /\ \E subset \in CallSolns \cup {NoSeries} :
          score_matrix' = precompute(score_matrix, subset)
    /\ UNCHANGED dt_calls

NextCalls ==
    (CallGetBestGuess \/ CallPrecompute)
        /\ UNCHANGED <<scorerVars, partitionVars, orderVars, streamVars,
                       solverVars, gameVars, engineVars, simulGameVars,
                       simulEngineVars, treeVars, nodeVars, benchVars,
                       depthVars, lateVars>>

SpecCalls == InitCalls /\ [][NextCalls]_vars

\* C19: any two calls of get_best_guess with the same all_words and the same
\* candidates return the same word, whatever columns of the score matrix
\* were calculated before each and whatever calls were made in between.
C19_SameInputsSameGuess ==
    \A i, j \in 1..Len(dt_calls) :
        dt_calls[i].solns = dt_calls[j].solns
            => dt_calls[i].best.word = dt_calls[j].best.word

\* three calls, the first and the third on the same three candidates or
\* more, the second on others
C19_Witness ==
    /\ Len(dt_calls) = 3
    /\ dt_calls[1].solns = dt_calls[3].solns
    /\ dt_calls[2].solns # dt_calls[1].solns
    /\ Len(dt_calls[1].solns.words) >= 3
    /\ Len(dt_calls[2].solns.words) >= 3

(***************************************************************************)
(* Specification of the depths: on a dictionary whose common words are any *)
(* of the common words, and with no opening guess or any word of it as the *)
(* opening guess, the benchmark is run with the solver of depth 1 and with *)
(* the solver of depth 2.                                                  *)
(***************************************************************************)
\* Benchmark.num_guesses
num_guesses(self) ==
    SumOver(DOMAIN self.histogram,
            [k \in DOMAIN self.histogram |-> k * self.histogram[k]])

\* num_guesses of the benchmark of an engine, or the exception the run raised
total_of(benchmark) ==
    IF IsRaised(benchmark) THEN benchmark
    ELSE [total |-> num_guesses(benchmark)]

\* load_dictionary: all_words.update(common_words)
depth_all_words(potential_solns) ==
    WordSeries(SeqRange(potential_solns.words)
                   \cup {ExtraPool[i] : i \in 1..NumExtraWords})

\* the common words of the dictionaries
DepthDictionaries == {WordSeries(S) : S \in (SUBSET common_strings) \ {{}}}

\* the opening guesses on a dictionary
DepthGuesses(potential_solns) ==
    {<<>>} \cup {<<w>> : w \in SeqRange(depth_all_words(potential_solns).words)}

InitDepth ==
    /\ dp_common \in DepthDictionaries
    /\ dp_guesses \in DepthGuesses(dp_common)
    /\ dp_shallow = NoTotal /\ dp_deep = NoTotal
    /\ score_matrix = ScoreMatrixInit(size, all_words, common_words)
    /\ IdleTree /\ IdleNodes /\ IdleBench /\ IdleCalls /\ IdleLate
    /\ IdleScorer /\ IdlePartition /\ IdleOrder /\ IdleStream /\ IdleSolver
    /\ IdleGame /\ IdleEngine /\ IdleSimul

\* the benchmark of create_models(depth=1)
RunShallow ==
    /\ dp_shallow = NoTotal
    /\ dp_shallow' = total_of(run_benchmark(
                        create_models(depth_all_words(dp_common), dp_common, 1),
                        dp_guesses))
    /\ UNCHANGED <<dp_common, dp_guesses, dp_deep>>

\* the benchmark of create_models(depth=2)
RunDeep ==
    /\ dp_deep = NoTotal
    /\ dp_deep' = total_of(run_benchmark(
                        create_models(depth_all_words(dp_common), dp_common, 2),
                        dp_guesses))
    /\ UNCHANGED <<dp_common, dp_guesses, dp_shallow>>

NextDepth ==
    (RunShallow \/ RunDeep)
        /\ UNCHANGED <<scorerVars, partitionVars, orderVars, matrixVars,
                       streamVars, solverVars, gameVars, engineVars,
                       simulGameVars, simulEngineVars, treeVars, nodeVars,
                       benchVars, callVars, lateVars>>

SpecDepth == InitDepth /\ [][NextDepth]_vars

\* C20: on a dictionary and an opening guess, both benchmarks solve every
\* common word, and the guesses the depth-2 solver uses in total are no more
\* than the guesses the depth-1 solver uses.
C20_DeepUsesNoMoreGuesses ==
    (dp_shallow # NoTotal /\ dp_deep # NoTotal)
        => /\ ~IsRaised(dp_shallow)
           /\ ~IsRaised(dp_deep)
           /\ dp_deep.total <= dp_shallow.total

\* C21: Engine.run ends in two ways only, whatever the solution and the user
\* guesses: it returns a solved Game or raises FailedToFindASolutionError; no
\* other exception escapes the loop.
C21_EngineEndsInTwoWays ==
    /\ en_pc \in {"ready", "running", "returned", "failed"}
    /\ en_pc = "returned" => game.is_solved

(***************************************************************************)
(* Scoreboard.many (boards.py): the rows of a scoreboard grouped by their  *)
(* solution, the groups in the order their first rows come.                *)
(***************************************************************************)
\* scoreboard_by_soln[row.soln].rows.append(row) for one row: a new board
\* after the others for a solution not seen yet
many_add(boards, row) ==
    IF \E k \in 1..Len(boards) : boards[k][1].soln = row.soln
    THEN [k \in 1..Len(boards) |->
            IF boards[k][1].soln = row.soln THEN Append(boards[k], row)
            ELSE boards[k]]
    ELSE Append(boards, <<row>>)

RECURSIVE many_rows(_, _)
\* the loop of many over the first n rows
many_rows(rows, n) ==
    IF n = 0 THEN <<>> ELSE many_add(many_rows(rows, n - 1), rows[n])

\* Scoreboard.many
many(self) == many_rows(self, Len(self))

\* C22: many() of the scoreboard of a simultaneous game with N boards gives
\* exactly N scoreboards, one per board, each with exactly the rows of that
\* board in the order of the rounds, n strictly increasing.
C22_ManySplitsByBoard ==
    (simul_game # NoGame /\ Len(simul_game.scoreboard) > 0) =>
        LET scoreboards == many(simul_game.scoreboard)
        IN  /\ Len(scoreboards) = Len(simul_game.games)
            /\ \A b \in 1..Len(simul_game.games) :
                  /\ scoreboards[b] = simul_game.games[b].scoreboard
                  /\ \A k \in 1..(Len(scoreboards[b]) - 1) :
                        scoreboards[b][k].n < scoreboards[b][k + 1].n

(***************************************************************************)
(* A round of SimulEngine.run, seen from the states before and after it.   *)
(***************************************************************************)
\* the boards not solved, in board order
unsolved_boards(self) ==
    MaskSeq([b \in 1..Len(self.games) |-> b],
            [b \in 1..Len(self.games) |-> ~self.games[b].is_solved])

\* the row a round adds to a board
round_row(self, b, i, guess, after) ==
    [n |-> i,
     soln |-> self.games[b].soln,
     guess |-> guess,
     score |-> to_ternary(score_word(size, self.games[b].soln, guess),
                          self.word_length),
     num_left |-> Len(after.games[b].potential_solns.words)]

InitMatrix ==
    /\ score_matrix = ScoreMatrixInit(size, all_words, common_words)
    /\ pm_belonged = {} /\ pm_last = NoCall
    /\ IdleShm
    /\ IdleTree /\ IdleNodes /\ IdleBench /\ IdleCalls /\ IdleDepth
    /\ IdleScorer /\ IdlePartition /\ IdleOrder /\ IdleStream /\ IdleSolver
    /\ IdleGame /\ IdleEngine /\ IdleSimul
    /\ IdleSeries
    /\ IdleDeep
    /\ IdleTreeCalls

\* score_matrix.precompute(subset)
PrecomputeSubset ==
    \E mask \in [1..Len(common_words.words) -> BOOLEAN] :
        LET subset == getitem(common_words, mask)
        IN  /\ score_matrix' = precompute(score_matrix, subset)
            /\ pm_belonged' = pm_belonged \cup SeqRange(subset.index)
            /\ pm_last' = subset

\* score_matrix.precompute(): potential_solns is None
PrecomputeDefault ==
    /\ score_matrix' = precompute(score_matrix, NoSeries)
    /\ pm_belonged' = pm_belonged \cup SeqRange(common_words.index)
    /\ pm_last' = [default |-> TRUE]

NextMatrix ==
    (PrecomputeSubset \/ PrecomputeDefault)
        /\ UNCHANGED <<scorerVars, partitionVars, orderVars, streamVars,
                       solverVars, gameVars, engineVars, simulGameVars,
                       simulEngineVars, treeVars, nodeVars, benchVars,
                       callVars, depthVars, shmVars,
                       seriesVars,
                       deepVars,
                       treeCallVars>>

SpecMatrix == InitMatrix /\ [][NextMatrix]_vars

\* the matrix agrees with the columns asked for so far
matrix_agrees(matrix, belonged) ==
    /\ \A c \in DOMAIN matrix.is_calculated :
          /\ matrix.is_calculated[c] <=> c \in belonged
          /\ \A r \in DOMAIN matrix.storage :
                matrix.storage[r][c]
                    = IF matrix.is_calculated[c]
                      THEN score_word(size, common_words.words[c + 1],
                                      all_words.words[r + 1])
                      ELSE 0 - 1
    /\ matrix.is_fully_initialized
          <=> \A c \in DOMAIN matrix.is_calculated : matrix.is_calculated[c]

\* C24: after any calls of precompute, every flagged column holds the score
\* of its common word against the word of each row, every other column
\* holds -1 only, a column is flagged iff it belonged to a subset
\* precomputed so far, is_fully_initialized is true iff every column is
\* flagged, and a call with the argument of the call before it changes
\* neither the matrix nor the flags.
C24_MatrixAfterPrecomputes ==
    /\ [](matrix_agrees(score_matrix, pm_belonged))
    /\ [][pm_last' = pm_last => score_matrix' = score_matrix]_vars

(***************************************************************************)
(* MemoryMappedStorage (histogram.py): the object that creates the shared  *)
(* memory region, the copies of it that pickling or a fork puts in worker  *)
(* processes, and __del__ of each.  A process is its pid; the owner has    *)
(* OwnerPid.  id(self) of a copy is any address: a forked copy has the     *)
(* address of the original, an unpickled one whatever the allocator gives. *)
(***************************************************************************)
NumWorkers == 2
NumAddresses == 2
MaxCopies == 3
OwnerPid == 0
WorkerPids == 1..NumWorkers
Addresses == 1..NumAddresses

\* MemoryMappedStorage.__init__ in process pid at address: _id = id(self),
\* _process_id = current_process().pid, the handle of the region open
MemoryMappedStorage(pid, address) ==
    [pid |-> pid, id |-> address, _id |-> address, _process_id |-> pid,
     handle |-> "open", deleted |-> FALSE]

\* the copy of an object that lives in process pid at address: __dict__ is
\* copied, SharedMemory attaches to the region by name
copy_into(self, pid, address) ==
    [pid |-> pid, id |-> address, _id |-> self._id,
     _process_id |-> self._process_id, handle |-> "open", deleted |-> FALSE]

\* the test of __del__ without the process id
is_original_by_id_only(self) == self._id = self.id

\* __del__: self._id == id(self) and self._process_id == current_process().pid
is_original(self) == self._id = self.id /\ self._process_id = self.pid

\* __del__: the handle is closed
del(self) == [self EXCEPT !.handle = "closed", !.deleted = TRUE]

InitShm ==
    /\ \E address \in Addresses :
          shm_objects = <<MemoryMappedStorage(OwnerPid, address)>>
    /\ shm_unlinks = <<>>
    /\ IdlePrecomputes
    /\ IdleTree /\ IdleNodes /\ IdleBench /\ IdleCalls /\ IdleDepth
    /\ IdleScorer /\ IdlePartition /\ IdleOrder /\ IdleMatrix /\ IdleStream
    /\ IdleSolver /\ IdleGame /\ IdleEngine /\ IdleSimul
    /\ IdleSeries
    /\ IdleDeep
    /\ IdleTreeCalls

\* the storage is sent to a worker process, or the worker was forked with
\* it: the original is alive and the region linked; no two live objects of
\* a process have one address
CopyToWorker ==
    /\ Len(shm_objects) <= MaxCopies
    /\ ~shm_objects[1].deleted
    /\ \E pid \in WorkerPids, address \in Addresses :
          /\ \A k \in 1..Len(shm_objects) :
                (shm_objects[k].pid = pid /\ ~shm_objects[k].deleted)
                    => shm_objects[k].id # address
          /\ shm_objects' = Append(shm_objects,
                                   copy_into(shm_objects[1], pid, address))
    /\ UNCHANGED shm_unlinks

\* __del__ of an object, in any order: close, and unlink on the original
Del ==
    \E k \in 1..Len(shm_objects) :
        /\ ~shm_objects[k].deleted
        /\ shm_objects' = [shm_objects EXCEPT ![k] = del(shm_objects[k])]
        /\ shm_unlinks' = IF is_original(shm_objects[k])
                          THEN Append(shm_unlinks,
                                      [object |-> k, pid |-> shm_objects[k].pid])
                          ELSE shm_unlinks

NextShm ==
    (CopyToWorker \/ Del)
        /\ UNCHANGED <<scorerVars, partitionVars, orderVars, matrixVars,
                       streamVars, solverVars, gameVars, engineVars,
                       simulGameVars, simulEngineVars, treeVars, nodeVars,
                       benchVars, callVars, depthVars, precomputeVars,
                       seriesVars,
                       deepVars,
                       treeCallVars>>

SpecShm == InitShm /\ [][NextShm]_vars

\* C25: the region is unlinked at most once, by the object that created it
\* in the process that created it; a copy in a worker process that was torn
\* down has closed its handle and has not unlinked, whatever the order of
\* the teardowns.
C25_OnlyOwnerUnlinksOnce ==
    /\ Len(shm_unlinks) <= 1
    /\ \A n \in 1..Len(shm_unlinks) :
          shm_unlinks[n].object = 1 /\ shm_unlinks[n].pid = OwnerPid
    /\ \A k \in 2..Len(shm_objects) :
          shm_objects[k].deleted
              => /\ shm_objects[k].handle = "closed"
                 /\ \A n \in 1..Len(shm_unlinks) : shm_unlinks[n].object # k

\* C25 witness: the owner and two copies of it in different workers, both
\* at the address of the original, were torn down, and the region was
\* unlinked once
C25_Witness ==
    /\ Len(shm_objects) = 3
    /\ \A k \in 1..3 : shm_objects[k].deleted /\ shm_objects[k].id = shm_objects[1].id
    /\ shm_objects[2].pid # shm_objects[3].pid
    /\ Len(shm_unlinks) = 1

(***************************************************************************)
(* WordSeries.__getitem__ (words.py) with a slice, a boolean mask or an    *)
(* integer array, as numpy indexes words and index.  None is <<>> and an   *)
(* integer k is <<k>> in the arguments of a slice.                         *)
(***************************************************************************)
NumSeriesWords == 5
MaxIndexLen == 3

\* WordSeries.__init__(words, index) of an array of Word objects: the dtype
\* of the array is object, which numpy finds equal to a class, so the words
\* are kept as they come and the index is the one given
WordSeriesOfArray(words, index) == [words |-> words, index |-> index]

\* slice.indices(n) for a step above 0: start and stop clipped into 0..n
forward_bound(v, n, default) ==
    IF v = <<>> THEN default
    ELSE IF v[1] < 0 THEN (IF v[1] + n < 0 THEN 0 ELSE v[1] + n)
    ELSE IF v[1] > n THEN n ELSE v[1]

\* slice.indices(n) for a step below 0: start and stop clipped into -1..n-1
backward_bound(v, n, default) ==
    IF v = <<>> THEN default
    ELSE IF v[1] < 0 THEN (IF v[1] + n < 0 - 1 THEN 0 - 1 ELSE v[1] + n)
    ELSE IF v[1] > n - 1 THEN n - 1 ELSE v[1]

\* the positions start, start + step, ... before stop, counted from 0
positions_from(start, stop, step) ==
    LET count == IF step > 0
                 THEN (IF stop > start THEN ((stop - start - 1) \div step) + 1 ELSE 0)
                 ELSE (IF start > stop
                       THEN ((start - stop - 1) \div (0 - step)) + 1 ELSE 0)
    IN  [k \in 1..count |-> start + (k - 1) * step]

\* the positions a slice selects in an array of n elements
slice_positions(start, stop, step, n) ==
    IF step = <<>> \/ step[1] > 0
    THEN positions_from(forward_bound(start, n, 0), forward_bound(stop, n, n),
                        IF step = <<>> THEN 1 ELSE step[1])
    ELSE positions_from(backward_bound(start, n, n - 1),
                        backward_bound(stop, n, 0 - 1), step[1])

\* array[positions]
take(array, positions) == [k \in 1..Len(positions) |-> array[positions[k] + 1]]

\* the positions an integer array selects: a negative integer counts from
\* the end
array_positions(ints, n) ==
    [k \in 1..Len(ints) |-> IF ints[k] < 0 THEN ints[k] + n ELSE ints[k]]

\* WordSeries.__getitem__ with a slice
getitem_slice(series, start, stop, step) ==
    WordSeriesOfArray(
        take(series.words,
             slice_positions(start, stop, step, Len(series.words))),
        take(series.index,
             slice_positions(start, stop, step, Len(series.index))))

\* WordSeries.__getitem__ with an integer array
getitem_array(series, ints) ==
    WordSeriesOfArray(
        take(series.words, array_positions(ints, Len(series.words))),
        take(series.index, array_positions(ints, Len(series.index))))

\* WordSeries.__getitem__ with a boolean mask
getitem_mask(series, mask) ==
    WordSeriesOfArray(MaskSeq(series.words, mask), MaskSeq(series.index, mask))

\* the root series: WordSeries(words) of a set of words
root_series == WordSeries({CommonPool[i] : i \in 1..NumSeriesWords})

\* the arguments of a slice: None or an integer
SliceBounds(n) == {<<>>} \cup {<<k>> : k \in (0 - n - 1)..(n + 1)}
SliceSteps == {<<>>, <<1>>, <<2>>, <<0 - 1>>}

\* the integer arrays that index an array of n elements without IndexError
IndexArrays(n) ==
    UNION {[1..len -> (0 - n)..(n - 1)] : len \in 1..MaxIndexLen}

InitSeries ==
    /\ sr_series = root_series
    /\ IdlePrecomputes /\ IdleShm
    /\ IdleTree /\ IdleNodes /\ IdleBench /\ IdleCalls /\ IdleDepth
    /\ IdleScorer /\ IdlePartition /\ IdleOrder /\ IdleMatrix /\ IdleStream
    /\ IdleSolver /\ IdleGame /\ IdleEngine /\ IdleSimul
    /\ IdleDeep
    /\ IdleTreeCalls

\* series[start:stop:step]
GetitemSlice ==
    \E start, stop \in SliceBounds(Len(sr_series.words)), step \in SliceSteps :
        sr_series' = getitem_slice(sr_series, start, stop, step)

\* series[mask], the mask as long as the series
GetitemMask ==
    \E mask \in [1..Len(sr_series.words) -> BOOLEAN] :
        sr_series' = getitem_mask(sr_series, mask)

\* series[np.array([...])]
GetitemArray ==
    \E ints \in IndexArrays(Len(sr_series.words)) :
        sr_series' = getitem_array(sr_series, ints)

NextSeries ==
    (GetitemSlice \/ GetitemMask \/ GetitemArray)
        /\ UNCHANGED <<scorerVars, partitionVars, orderVars, matrixVars,
                       streamVars, solverVars, gameVars, engineVars,
                       simulGameVars, simulEngineVars, treeVars, nodeVars,
                       benchVars, callVars, depthVars, precomputeVars,
                       shmVars,
                       deepVars,
                       treeCallVars>>

SpecSeries == InitSeries /\ [][NextSeries]_vars

\* C26: a series got from the root series by any indexing has its words
\* sorted ascending and, at every position, the index of the word is the
\* position of the word in the root series.
C26_SortedWithRootIndex ==
    /\ Len(sr_series.index) = Len(sr_series.words)
    /\ \A i \in 1..(Len(sr_series.words) - 1) :
          ~WordLess(sr_series.words[i + 1], sr_series.words[i])
    /\ \A i \in 1..Len(sr_series.words) :
          /\ sr_series.index[i] + 1 \in 1..Len(root_series.words)
          /\ root_series.words[sr_series.index[i] + 1] = sr_series.words[i]

(***************************************************************************)
(* Specification of DeepMinimaxSolver.get_best_guess: the solver of        *)
(* create_models(depth=2) on a dictionary, called once on a series of      *)
(* candidates cut out of the common words.  The dictionaries are the one   *)
(* of all of CommonPool, where most candidates are told apart by one       *)
(* guess, and the one of the rhyming words, where few are.                 *)
(***************************************************************************)
\* the common words of the dictionaries of the deep solver
DeepDictionaries == {WordSeries(SeqRange(CommonPool)), tree_common_words}

\* all_words of a dictionary
deep_all_words(potential_solns) ==
    IF potential_solns = tree_common_words THEN tree_all_words
    ELSE depth_all_words(potential_solns)

\* the matrix of the HistogramBuilder of the solver
deep_matrix(call) == ScoreMatrixInit(size, call.all_words, call.common_words)

InitDeep ==
    /\ \E d \in DeepDictionaries :
          dg_call \in {[all_words |-> deep_all_words(d), common_words |-> d,
                        potential_solns |-> c, guess |-> NoGuess] :
                          c \in SubSeries(d)}
    /\ IdlePrecomputes /\ IdleShm /\ IdleSeries
    /\ IdleTree /\ IdleNodes /\ IdleBench /\ IdleCalls /\ IdleDepth
    /\ IdleScorer /\ IdlePartition /\ IdleOrder /\ IdleMatrix /\ IdleStream
    /\ IdleSolver /\ IdleGame /\ IdleEngine /\ IdleSimul
    /\ IdleTreeCalls

\* sut.get_best_guess(all_words, potential_solns)
DeepGetBestGuess ==
    /\ dg_call.guess = NoGuess
    /\ dg_call' = [dg_call EXCEPT !.guess =
                      deep_get_best_guess(2, deep_matrix(dg_call), dg_call.all_words,
                                          dg_call.potential_solns)]

NextDeep ==
    DeepGetBestGuess
        /\ UNCHANGED <<scorerVars, partitionVars, orderVars, matrixVars,
                       streamVars, solverVars, gameVars, engineVars,
                       simulGameVars, simulEngineVars, treeVars, nodeVars,
                       benchVars, callVars, depthVars, precomputeVars,
                       shmVars, seriesVars,
                       treeCallVars>>

SpecDeep == InitDeep /\ [][NextDeep]_vars

\* the 50 best depth-1 guesses of a call
best_guesses_of(call) ==
    head(minimax_sorted(all_guesses(deep_matrix(call), call.all_words,
                                    call.potential_solns)),
         N_GUESSES)

\* the best guesses of the inner solver on the 10 largest buckets of a guess
inner_guesses(call, solns_by_score) ==
    best_deep_guesses_of(2, precompute(deep_matrix(call), call.potential_solns),
                         call.all_words, solns_by_score,
                         head(worst_scores_of(solns_by_score,
                                              SortInts(DOMAIN solns_by_score)),
                              N_BRANCHES))

\* the worst of guesses: the one that improves upon none of them
worst_of(guesses) ==
    CHOOSE w \in SeqRange(guesses) :
        \A x \in SeqRange(guesses) : ~improves_upon(w, x)

\* the worst inner best guess of each of the best guesses
worst_inner_guesses(call, best_guesses) ==
    [k \in 1..Len(best_guesses) |->
        worst_of(inner_guesses(call, get_solns_by_score(call.potential_solns,
                                                        best_guesses[k].word)))]

\* the word and the flag of a guess with the statistics of an inner guess
carrying(guess, inner) ==
    [word |-> guess.word,
     is_potential_soln |-> guess.is_potential_soln,
     number_of_buckets |-> inner.number_of_buckets,
     size_of_largest_bucket |-> inner.size_of_largest_bucket]

\* returned carries the k-th best guess and its worst inner guess, and no
\* worst inner guess improves upon that one
is_least_inner(returned, best_guesses, inner, k) ==
    /\ returned = carrying(best_guesses[k], inner[k])
    /\ \A j \in 1..Len(inner) : ~improves_upon(inner[j], inner[k])

\* returned carries the k-th best guess and its worst inner guess, and no
\* best guess carrying its worst inner guess improves upon returned
is_least_combined(returned, best_guesses, inner, k) ==
    /\ returned = carrying(best_guesses[k], inner[k])
    /\ \A j \in 1..Len(inner) :
          ~improves_upon(carrying(best_guesses[j], inner[j]), returned)

\* the best guess perfectly partitions and returned is its word with no
\* bucket
is_perfect_guess(returned, best_guesses) ==
    /\ perfectly_partitions(best_guesses[1])
    /\ returned.word = best_guesses[1].word
    /\ returned.is_potential_soln = best_guesses[1].is_potential_soln
    /\ returned.size_of_largest_bucket = 0

\* the call was made on more than two candidates
deep_called == dg_call.guess # NoGuess /\ Len(dg_call.potential_solns.words) > 2

returned_least_inner(returned, best_guesses, inner) ==
    \/ is_perfect_guess(returned, best_guesses)
    \/ /\ ~perfectly_partitions(best_guesses[1])
       /\ \E k \in 1..Len(best_guesses) :
             is_least_inner(returned, best_guesses, inner, k)

returned_least_combined(returned, best_guesses, inner) ==
    \/ is_perfect_guess(returned, best_guesses)
    \/ /\ ~perfectly_partitions(best_guesses[1])
       /\ \E k \in 1..Len(best_guesses) :
             is_least_combined(returned, best_guesses, inner, k)

\* the worst inner guesses are needed only when no guess perfectly partitions
inner_if_needed(call, best_guesses) ==
    IF perfectly_partitions(best_guesses[1]) THEN <<>>
    ELSE worst_inner_guesses(call, best_guesses)

least_inner_among(call, best_guesses) ==
    returned_least_inner(call.guess, best_guesses,
                         inner_if_needed(call, best_guesses))

least_combined_among(call, best_guesses) ==
    returned_least_combined(call.guess, best_guesses,
                            inner_if_needed(call, best_guesses))

\* C27 as stated: on more than two candidates, if the best depth-1 guess
\* perfectly partitions them the guess returned is its word with a largest
\* bucket of 0; otherwise the guess returned has the word and the solution
\* flag of the one of the 50 best depth-1 guesses whose worst inner best
\* guess is minimal in the minimax order, and the bucket statistics of that
\* inner guess.
C27_DeepGuessIsMinimaxOfInner ==
    deep_called => least_inner_among(dg_call, best_guesses_of(dg_call))

\* C27 amended: on more than two candidates, if the best depth-1 guess
\* perfectly partitions them the guess returned is its word with a largest
\* bucket of 0; otherwise the guess returned is the least in the minimax
\* order of the 50 best depth-1 guesses each carrying the bucket statistics
\* of its worst inner best guess.
C27_DeepGuessIsLeastCombined ==
    deep_called => least_combined_among(dg_call, best_guesses_of(dg_call))

\* the call was made on candidates that no guess perfectly partitions, and
\* the word returned is not the best depth-1 guess
C27_Witness ==
    /\ deep_called
    /\ dg_call.guess.size_of_largest_bucket > 0
    /\ dg_call.guess.word #
           get_best_guess(deep_matrix(dg_call), dg_call.all_words,
                          dg_call.potential_solns).word

(***************************************************************************)
(* The candidates of Engine.run: available_answers after each round.       *)
(***************************************************************************)
\* the words of a series
words_of(series) == SeqRange(series.words)

\* a run on a solution among the common words that has made its game
playing_common == game # NoGame /\ game.soln \in common_strings

\* C28: while Engine.run plays a solution among the common words, after
\* every round the candidates are the common words that score against every
\* guess played so far as the solution does; the solution is one of them, so
\* they are never empty; and a round leaves a subset of the candidates it
\* found.
C28_CandidatesAreConsistentWords ==
    /\ [](playing_common =>
            /\ en_available = candidates_after(Len(game.scoreboard))
            /\ game.soln \in words_of(en_available)
            /\ Len(en_available.words) > 0)
    /\ [][(playing_common /\ en_pc = "running") =>
            words_of(en_available') \subseteq words_of(en_available)]_vars

\* a run on a common solution whose first round left some of the common
\* words, whose second round left fewer, and that is down to the solution
\* alone
C28_Witness ==
    /\ playing_common
    /\ Len(game.scoreboard) >= 3
    /\ game.scoreboard[1].num_left < Len(common_words.words)
    /\ game.scoreboard[2].num_left < game.scoreboard[1].num_left
    /\ words_of(en_available) = {game.soln}

\* the guess of the round about to be played was chosen by the solver: it is
\* neither a guess of the user nor the seed
solver_chose == en_i > 1 /\ en_i > Len(game.opening_guesses)

\* a round is played
round_played == en_pc = "running" /\ Len(game'.scoreboard) = Len(game.scoreboard) + 1

\* C29: on a solution among the common words, every round whose guess the
\* depth-1 minimax solver chose solves the game or leaves strictly fewer
\* candidates than it found; so no run plays more rounds than the user
\* guesses and the common words together, and none fails.
C29_SolverRoundsShrinkCandidates ==
    /\ [][(playing_common /\ round_played /\ solver_chose) =>
            \/ game'.is_solved
            \/ Len(en_available'.words) < Len(en_available.words)]_vars
    /\ [](playing_common =>
            /\ Len(game.scoreboard)
                  <= Len(game.opening_guesses) + Len(common_words.words)
            /\ en_pc # "failed")

(***************************************************************************)
(* The calls of TreeBuilder.find_best_tree, one step per call and per      *)
(* return.  Which calls a call makes depends on its candidates, its word   *)
(* and its depth only, never on the trees the calls return, so a call that *)
(* has not returned is its arguments and the calls it has yet to make.     *)
(***************************************************************************)
\* the depth of the calls the model follows
MaxTreeDepth == 10

\* the permutation limits of the builders
TreeCallLimits == PermutationLimits \cup {1}

\* the calls a bucket makes: find_best_tree(inner_solns, tmp_node, depth + 1)
\* for each of best_guesses, unless the best of them perfectly partitions
calls_of_guesses(inner_solns, best_guesses) ==
    IF best_guesses[1].is_perfect_partition THEN <<>>
    ELSE [k \in 1..Len(best_guesses) |->
             [potential_solns |-> inner_solns, word |-> best_guesses[k].word]]

\* the calls one turn of the loop over solns_by_score.items() makes
calls_of_bucket(score, inner_solns, WIN_SCORE, top_n) ==
    IF score = WIN_SCORE \/ Len(inner_solns.words) <= 2 THEN <<>>
    ELSE calls_of_guesses(
            inner_solns,
            first_guesses(sorted(entropy_all_guesses(tree_matrix, tree_all_words,
                                                     inner_solns)),
                          top_n))

RECURSIVE calls_of_buckets(_, _, _, _, _)
\* the calls of the first k turns of the loop, in their order
calls_of_buckets(solns_by_score, keys, k, WIN_SCORE, top_n) ==
    IF k = 0 THEN <<>>
    ELSE calls_of_buckets(solns_by_score, keys, k - 1, WIN_SCORE, top_n)
            \o calls_of_bucket(keys[k], solns_by_score[keys[k]], WIN_SCORE, top_n)

\* the calls of find_best_tree(potential_solns, parent, depth)
calls_of(limit, potential_solns, parent_word, depth) ==
    calls_of_buckets(get_solns_by_score(potential_solns, parent_word),
                     SortInts(DOMAIN get_solns_by_score(potential_solns, parent_word)),
                     Cardinality(DOMAIN get_solns_by_score(potential_solns, parent_word)),
                     perfect_score(tree_scorer),
                     n_guesses(limit, depth))

\* a call of find_best_tree that has not returned
tree_call(limit, potential_solns, parent_word, depth) ==
    [potential_solns |-> potential_solns, word |-> parent_word, depth |-> depth,
     pending |-> calls_of(limit, potential_solns, parent_word, depth)]

\* the word of a call leaves its candidates in one bucket
does_not_split(call) ==
    Cardinality(DOMAIN get_solns_by_score(call.potential_solns, call.word)) = 1

\* TreeBuilder.build(potential_solns, opening_word): it has one call to
\* make, find_best_tree(potential_solns, node), whose depth is 0
build_call(potential_solns, opening_word) ==
    [potential_solns |-> potential_solns, word |-> opening_word, depth |-> 0 - 1,
     pending |-> <<[potential_solns |-> potential_solns, word |-> opening_word]>>]

\* TreeBuilder(..., limit).build(potential_solns, opening_word) is called
InitTreeCalls ==
    /\ tc_pc = "running"
    /\ tc_limit \in TreeCallLimits
    /\ \E potential_solns \in SubSeries(tree_common_words),
          opening_word \in SeqRange(tree_all_words.words) \cup {OutsideWord} :
          tc_stack = <<build_call(potential_solns, opening_word)>>
    /\ score_matrix = tree_matrix
    /\ IdlePrecomputes /\ IdleShm /\ IdleSeries /\ IdleDeep
    /\ IdleTree /\ IdleNodes /\ IdleBench /\ IdleCalls /\ IdleDepth
    /\ IdleScorer /\ IdlePartition /\ IdleOrder /\ IdleStream
    /\ IdleSolver /\ IdleGame /\ IdleEngine /\ IdleSimul

\* self.find_best_tree(inner_solns, tmp_node, depth + 1)
FindBestTreeCall ==
    /\ tc_pc = "running"
    /\ Len(tc_stack) < MaxTreeDepth
    /\ LET caller == tc_stack[Len(tc_stack)]
       IN  /\ Len(caller.pending) > 0
           /\ tc_stack' =
                 Append([tc_stack EXCEPT ![Len(tc_stack)].pending = Tail(caller.pending)],
                        tree_call(tc_limit, caller.pending[1].potential_solns,
                                  caller.pending[1].word, caller.depth + 1))
    /\ UNCHANGED <<tc_pc, tc_limit>>

\* a call returns when it has no call left to make; build is the last
FindBestTreeReturn ==
    /\ tc_pc = "running"
    /\ Len(tc_stack[Len(tc_stack)].pending) = 0
    /\ tc_stack' = SubSeq(tc_stack, 1, Len(tc_stack) - 1)
    /\ tc_pc' = IF Len(tc_stack) = 1 THEN "done" ELSE "running"
    /\ UNCHANGED tc_limit

NextTreeCalls ==
    (FindBestTreeCall \/ FindBestTreeReturn)
        /\ UNCHANGED <<scorerVars, partitionVars, orderVars, matrixVars,
                       streamVars, solverVars, gameVars, engineVars,
                       simulGameVars, simulEngineVars, treeVars, nodeVars,
                       benchVars, callVars, depthVars, precomputeVars,
                       shmVars, seriesVars, deepVars>>

SpecTreeCalls == InitTreeCalls /\ [][NextTreeCalls]_vars

\* the size of a call: the number of its candidates, then whether its word
\* leaves them in one bucket, then the N_GUESSES of its depth
call_size(limit, call) ==
    <<Len(call.potential_solns.words),
      IF does_not_split(call) THEN 1 ELSE 0,
      n_guesses(limit, call.depth)>>

\* a size is smaller than another: the first difference decides
smaller_size(a, b) ==
    \/ a[1] < b[1]
    \/ a[1] = b[1] /\ a[2] < b[2]
    \/ a[1] = b[1] /\ a[2] = b[2] /\ a[3] < b[3]

\* find_best_tree calls itself
call_made ==
    /\ tc_pc = "running"
    /\ Len(tc_stack') = Len(tc_stack) + 1
    /\ tc_stack[Len(tc_stack)].depth >= 0

\* C30: find_best_tree terminates on every series of candidates cut out of
\* the common words, every opening word and every permutation_limit of 1 or
\* more, also when guesses it recurses into leave the candidates in one
\* bucket: every call it makes of itself is smaller than the call that makes
\* it, in an order that has no infinite descent, and the calls never nest
\* MaxTreeDepth deep; a call makes finitely many calls, so build returns.
C30_FindBestTreeTerminates ==
    /\ [][call_made =>
            smaller_size(call_size(tc_limit, tc_stack'[Len(tc_stack')]),
                         call_size(tc_limit, tc_stack[Len(tc_stack)]))]_vars
    /\ [](Len(tc_stack) < MaxTreeDepth)

\* a call that find_best_tree made on a guess that does not split the
\* candidates, from a call on such a guess, has made its own calls and is
\* about to return
C30_Witness ==
    /\ tc_pc = "running"
    /\ Len(tc_stack) >= 4
    /\ does_not_split(tc_stack[Len(tc_stack)])
    /\ does_not_split(tc_stack[Len(tc_stack) - 1])
    /\ Len(tc_stack[Len(tc_stack)].potential_solns.words) >= 3
    /\ Len(tc_stack[Len(tc_stack)].pending) = 0

====
